---- MODULE Spec2Model ----
(***************************************************************************)
(* Model of AimonShakil/todo-evolution: the Phase II web backend (task     *)
(* service, task routes, token service) and the Phase I CLI (validators,   *)
(* Task model, TaskService).                                               *)
(*                                                                         *)
(* Optional[X] values are sequences: None is <<>>, a present value v is    *)
(* <<v>>.  Strings that the code measures or parses (titles, token         *)
(* subjects) are sequences of one-character strings.  Table rows are       *)
(* records and a table is the set of its rows.                             *)
(***************************************************************************)
EXTENDS Integers, Sequences, FiniteSets, TLC

VARIABLES
    layer,      \* which entry point drives this run: "service", "http", "cli", "auth",
                \* "title", "accounts", "limit", "schema", "race", ...
    now,        \* the reading of datetime.utcnow(), in clock ticks
    tasks,      \* web store: rows of table "task"
    nextId,     \* web store: next value of the task id sequence
    last,       \* the last call or request and its outcome
    writes,     \* committed writes so far in this run
    cliTasks,   \* CLI store: rows of table "task" in todo.db
    held,       \* the token last issued, with the user it was issued for
    hist,       \* toggles made on one task since its last other write; accounts opened
    users,      \* web store: rows of table "user"
    calls,      \* signup requests in flight, each between its select and its commit
    served,     \* requests served in the current minute, by user
    conversations,  \* web store: rows of table "conversation"
    messages,   \* web store: rows of table "message"
    sessions    \* task requests in flight, each with the row its session loaded

vars == <<layer, now, tasks, nextId, last, writes, cliTasks, held, hist, users, calls,
          served, conversations, messages, sessions>>

-----------------------------------------------------------------------------
(* Bounds of the model *)

MaxTime == 1
MaxTasks == 2
MaxWrites == 3
MaxToggles == 3
MaxRequests == 101

None == <<>>
Some(v) == <<v>>

\* accounts that exist (rows of table "user"), as the fixtures user_alice, user_bob
Users == {1, 2}
\* task ids a caller may name: every id the sequence can give and one it never gives
TaskIds == 1..(MaxTasks + 1)

\* a title of n characters
Title(n) == [i \in 1..n |-> "x"]

\* requests the web service handles at the same time
Procs == {1, 2}
Idle == [pc |-> "idle", email |-> "", name |-> <<>>, password |-> <<>>]
NoCalls == [p \in Procs |-> Idle]

\* no request counted in the current minute
NoneServed == [u \in Users |-> 0]

\* no task request in flight
NoSession == [pc |-> "idle", op |-> "none", user_id |-> 0, task_id |-> 0, row |-> <<>>,
              dirty |-> <<>>, outcome |-> "none"]
NoSessions == [p \in Procs |-> NoSession]


-----------------------------------------------------------------------------
(* backend/src/services/task_service.py *)

\* select(Task).where(Task.user_id == user_id)
get_all_tasks(store, user_id) == {t \in store : t.user_id = user_id}

get_task_unscoped(store, user_id, task_id) ==
    LET rows == {t \in store : t.id = task_id}
    IN  IF rows = {} THEN None ELSE Some(CHOOSE t \in rows : TRUE)

\* select(Task).where(Task.id == task_id, Task.user_id == user_id); scalar_one_or_none()
get_task(store, user_id, task_id) ==
    LET rows == {t \in store : t.id = task_id /\ t.user_id = user_id}
    IN  IF rows = {} THEN None ELSE Some(CHOOSE t \in rows : TRUE)

create_task_drops_description(store, seq, clock, user_id, title, description) ==
    LET task == [id |-> seq, user_id |-> user_id, title |-> title,
                 description |-> None, completed |-> FALSE,
                 created_at |-> clock, updated_at |-> clock]
    IN  [store |-> store \cup {task}, seq |-> seq + 1, result |-> Some(task)]

\* Task(user_id, title, description, completed=False); add; commit; refresh
create_task(store, seq, clock, user_id, title, description) ==
    LET task == [id |-> seq, user_id |-> user_id, title |-> title,
                 description |-> description, completed |-> FALSE,
                 created_at |-> clock, updated_at |-> clock]
    IN  [store |-> store \cup {task}, seq |-> seq + 1, result |-> Some(task)]

update_task_overwrites(store, clock, user_id, task_id, title, description, completed) ==
    LET found == get_task(store, user_id, task_id)
    IN  IF found = None
        THEN [store |-> store, result |-> None]
        ELSE LET task == found[1]
                 upd == [task EXCEPT
                           !.title = IF title # None THEN title[1] ELSE @,
                           !.description = description,
                           !.completed = IF completed # None THEN completed[1] ELSE @,
                           !.updated_at = clock]
             IN  [store |-> (store \ {task}) \cup {upd}, result |-> Some(upd)]

update_task_restamps(store, clock, user_id, task_id, title, description, completed) ==
    LET found == get_task(store, user_id, task_id)
    IN  IF found = None
        THEN [store |-> store, result |-> None]
        ELSE LET task == found[1]
                 upd == [task EXCEPT
                           !.title = IF title # None THEN title[1] ELSE @,
                           !.description = IF description # None THEN description ELSE @,
                           !.completed = IF completed # None THEN completed[1] ELSE @,
                           !.created_at = clock,
                           !.updated_at = clock]
             IN  [store |-> (store \ {task}) \cup {upd}, result |-> Some(upd)]

update_task(store, clock, user_id, task_id, title, description, completed) ==
    LET found == get_task(store, user_id, task_id)
    IN  IF found = None
        THEN [store |-> store, result |-> None]
        ELSE LET task == found[1]
                 upd == [task EXCEPT
                           !.title = IF title # None THEN title[1] ELSE @,
                           !.description = IF description # None THEN description ELSE @,
                           !.completed = IF completed # None THEN completed[1] ELSE @,
                           !.updated_at = clock]
             IN  [store |-> (store \ {task}) \cup {upd}, result |-> Some(upd)]

toggle_sets_completed(store, clock, user_id, task_id) ==
    LET found == get_task(store, user_id, task_id)
    IN  IF found = None
        THEN [store |-> store, result |-> None]
        ELSE LET task == found[1]
                 upd == [task EXCEPT !.completed = TRUE, !.updated_at = clock]
             IN  [store |-> (store \ {task}) \cup {upd}, result |-> Some(upd)]

toggle_no_stamp(store, clock, user_id, task_id) ==
    LET found == get_task(store, user_id, task_id)
    IN  IF found = None
        THEN [store |-> store, result |-> None]
        ELSE LET task == found[1]
                 upd == [task EXCEPT !.completed = ~@]
             IN  [store |-> (store \ {task}) \cup {upd}, result |-> Some(upd)]

toggle_task_completed(store, clock, user_id, task_id) ==
    LET found == get_task(store, user_id, task_id)
    IN  IF found = None
        THEN [store |-> store, result |-> None]
        ELSE LET task == found[1]
                 upd == [task EXCEPT !.completed = ~@, !.updated_at = clock]
             IN  [store |-> (store \ {task}) \cup {upd}, result |-> Some(upd)]

delete_task_soft(store, user_id, task_id) ==
    LET found == get_task(store, user_id, task_id)
    IN  IF found = None
        THEN [store |-> store, result |-> FALSE]
        ELSE [store |-> store, result |-> TRUE]

delete_task(store, user_id, task_id) ==
    LET found == get_task(store, user_id, task_id)
    IN  IF found = None
        THEN [store |-> store, result |-> FALSE]
        ELSE [store |-> store \ {found[1]}, result |-> TRUE]

-----------------------------------------------------------------------------
(* src/lib/validators.py, src/models/task.py, src/services/task_service.py  *)
(* (the Phase I CLI)                                                        *)

MAX_TITLE_LENGTH == 200

Whitespace == {" ", "\t", "\n"}

\* str.strip(): the string without its leading and trailing whitespace
Strip(s) ==
    LET keep == {i \in 1..Len(s) : s[i] \notin Whitespace}
    IN  IF keep = {} THEN <<>>
        ELSE LET lo == CHOOSE i \in keep : \A j \in keep : i <= j
                 hi == CHOOSE i \in keep : \A j \in keep : j <= i
             IN  SubSeq(s, lo, hi)

Valid == [ok |-> TRUE, error |-> "none"]
Invalid(msg) == [ok |-> FALSE, error |-> msg]

validate_title_off_by_one(title) ==
    IF title = <<>> \/ Len(title) = 0 THEN Invalid("Title cannot be empty")
    ELSE IF Len(title) >= MAX_TITLE_LENGTH THEN Invalid("Title must be 1-200 characters")
    ELSE Valid

validate_title_accepts_all(title) == Valid

\* lib/validators.py validate_title
validate_title(title) ==
    IF title = <<>> \/ Len(title) = 0 THEN Invalid("Title cannot be empty")
    ELSE IF Len(title) > MAX_TITLE_LENGTH THEN Invalid("Title must be 1-200 characters")
    ELSE Valid

\* lib/validators.py validate_user_id
validate_user_id(user_id) ==
    IF user_id = <<>> \/ Strip(user_id) = <<>> THEN Invalid("User ID cannot be empty")
    ELSE Valid

\* models/task.py validate_title, run by TitleStr = Annotated[str, AfterValidator]
Task_validate_title(v) ==
    IF v = <<>> \/ Len(v) = 0 THEN Invalid("Title cannot be empty")
    ELSE IF Len(v) > MAX_TITLE_LENGTH THEN Invalid("Title must be 1-200 characters")
    ELSE Valid

\* models/task.py validate_user_id, run by UserIdStr
Task_validate_user_id(v) ==
    IF v = <<>> \/ Strip(v) = <<>> THEN Invalid("User ID cannot be empty")
    ELSE Valid

\* Task(user_id=..., title=..., completed=False): the fields are validated on
\* assignment (model_config validate_assignment)
Task_new(clock, user_id, title) ==
    IF ~Task_validate_user_id(user_id).ok THEN Invalid("ValidationError")
    ELSE IF ~Task_validate_title(title).ok THEN Invalid("ValidationError")
    ELSE [ok |-> TRUE, error |-> "none",
          task |-> [user_id |-> user_id, title |-> title, completed |-> FALSE,
                    created_at |-> clock, updated_at |-> clock]]

\* INTEGER PRIMARY KEY of SQLite: one more than the largest id in the table
CliNextId(store) ==
    IF store = {} THEN 1
    ELSE (CHOOSE m \in {t.id : t \in store} : \A t \in store : t.id <= m) + 1

TaskService_create_task_ids_per_user(store, clock, user_id, title, db_fails) ==
    LET made == Task_new(clock, user_id, title)
    IN  IF ~made.ok
        THEN [store |-> store, raised |-> "ValidationError", result |-> None]
        ELSE IF db_fails
        THEN [store |-> store, raised |-> "DatabaseUnavailableError", result |-> None]
        ELSE LET row == [id |-> CliNextId({t \in store : t.user_id = made.task.user_id}),
                         user_id |-> made.task.user_id,
                         title |-> made.task.title, completed |-> made.task.completed,
                         created_at |-> made.task.created_at,
                         updated_at |-> made.task.updated_at]
             IN  [store |-> store \cup {row}, raised |-> "none", result |-> Some(row)]

TaskService_create_task_keeps_row(store, clock, user_id, title, db_fails) ==
    LET made == Task_new(clock, user_id, title)
    IN  IF ~made.ok
        THEN [store |-> store, raised |-> "ValidationError", result |-> None]
        ELSE LET row == [id |-> CliNextId(store), user_id |-> made.task.user_id,
                         title |-> made.task.title, completed |-> made.task.completed,
                         created_at |-> made.task.created_at,
                         updated_at |-> made.task.updated_at]
             IN  IF db_fails
                 THEN [store |-> store \cup {row}, raised |-> "DatabaseUnavailableError",
                       result |-> None]
                 ELSE [store |-> store \cup {row}, raised |-> "none", result |-> Some(row)]

\* TaskService.create_task; db_fails: the commit raises (disk, lock, file mode)
TaskService_create_task(store, clock, user_id, title, db_fails) ==
    LET made == Task_new(clock, user_id, title)
    IN  IF ~made.ok
        THEN [store |-> store, raised |-> "ValidationError", result |-> None]
        ELSE IF db_fails
        THEN [store |-> store, raised |-> "DatabaseUnavailableError", result |-> None]
        ELSE LET row == [id |-> CliNextId(store), user_id |-> made.task.user_id,
                         title |-> made.task.title, completed |-> made.task.completed,
                         created_at |-> made.task.created_at,
                         updated_at |-> made.task.updated_at]
             IN  [store |-> store \cup {row}, raised |-> "none", result |-> Some(row)]

get_tasks_for_user_all(store, user_id) == store

\* TaskService.get_tasks_for_user: select(Task).where(Task.user_id == user_id)
TaskService_get_tasks_for_user(store, user_id) == {t \in store : t.user_id = user_id}

-----------------------------------------------------------------------------
(* backend/src/services/auth_service.py *)

JWT_SECRET == "JWT_SECRET"
JWT_EXPIRATION_DAYS == 7

Digits == <<"0", "1", "2", "3", "4", "5", "6", "7", "8", "9">>
DigitChars == {Digits[i] : i \in 1..10}
DigitVal(c) == (CHOOSE i \in 1..10 : Digits[i] = c) - 1

RECURSIVE NatToStr(_)
NatToStr(n) == IF n < 10 THEN <<Digits[n + 1]>>
               ELSE NatToStr(n \div 10) \o <<Digits[(n % 10) + 1]>>

\* str(n) of an int
IntToStr(n) == IF n < 0 THEN <<"-">> \o NatToStr(-n) ELSE NatToStr(n)

RECURSIVE DigitsToNat(_)
DigitsToNat(s) == IF s = <<>> THEN 0
                  ELSE 10 * DigitsToNat(SubSeq(s, 1, Len(s) - 1)) + DigitVal(s[Len(s)])

\* int(s) of a str: surrounding whitespace is dropped, one sign is allowed, the
\* rest must be decimal digits (single underscores between digits are allowed);
\* anything else raises ValueError, which is None here
StrToInt(s) ==
    LET t == Strip(s)
        signed == t # <<>> /\ t[1] \in {"+", "-"}
        body == IF signed THEN SubSeq(t, 2, Len(t)) ELSE t
        wellFormed ==
            /\ body # <<>>
            /\ \A i \in 1..Len(body) : body[i] \in DigitChars \cup {"_"}
            /\ body[1] # "_" /\ body[Len(body)] # "_"
            /\ \A i \in 1..(Len(body) - 1) : ~(body[i] = "_" /\ body[i + 1] = "_")
        digits == SelectSeq(body, LAMBDA c : c # "_")
    IN  IF ~wellFormed THEN None
        ELSE IF signed /\ t[1] = "-" THEN Some(0 - DigitsToNat(digits))
        ELSE Some(DigitsToNat(digits))

\* the "sub" claim of a payload: absent, a str, or a JSON number
NoSub == [t |-> "absent", s |-> <<>>]
StrSub(chars) == [t |-> "str", s |-> chars]
NumSub(n) == [t |-> "int", s |-> IntToStr(n)]

\* a bearer string that is not three base64 segments, "" included
TextToken(text) ==
    [kind |-> "text", text |-> text, key |-> "", sub |-> NoSub, email |-> "", exp |-> 0]

\* jwt.encode(claims, key, algorithm=HS256): the claims, signed with key
jwt_encode(sub, email, exp, key) ==
    [kind |-> "jwt", text |-> "", key |-> key, sub |-> sub, email |-> email, exp |-> exp]

jwt_decode_ignores_exp(token, key, clock) ==
    IF token.kind # "jwt" THEN None
    ELSE IF token.key # key THEN None
    ELSE IF token.sub.t = "int" THEN None
    ELSE Some([sub |-> token.sub, email |-> token.email, exp |-> token.exp])

\* jwt.decode(token, key, algorithms=[HS256]): the payload, or None where jose
\* raises JWTError (not a JWT, signature made with another key, exp in the past,
\* "sub" present and not a str)
jwt_decode(token, key, clock) ==
    IF token.kind # "jwt" THEN None
    ELSE IF token.key # key THEN None
    ELSE IF token.exp < clock THEN None
    ELSE IF token.sub.t = "int" THEN None
    ELSE Some([sub |-> token.sub, email |-> token.email, exp |-> token.exp])

create_access_token_shared_sub(user_id, email, clock) ==
    jwt_encode(StrSub(IntToStr(0)), email, clock + JWT_EXPIRATION_DAYS, JWT_SECRET)

create_access_token(user_id, email, clock) ==
    jwt_encode(StrSub(IntToStr(user_id)), email, clock + JWT_EXPIRATION_DAYS, JWT_SECRET)

decode_access_token(token, clock) == jwt_decode(token, JWT_SECRET, clock)

get_user_id_from_token(token, clock) ==
    LET payload == decode_access_token(token, clock)
    IN  IF payload = None THEN None
        ELSE IF payload[1].sub.t = "absent" THEN None
        ELSE IF payload[1].sub.s = <<>> THEN None
        ELSE StrToInt(payload[1].sub.s)

-----------------------------------------------------------------------------
(* backend/src/routes/tasks.py *)

\* datetime.isoformat() of a clock reading
isoformat(t) == <<"T">> \o IntToStr(t)

\* TaskResponse.from_task
TaskResponse_from_task(task) ==
    [id |-> task.id, user_id |-> task.user_id, title |-> task.title,
     description |-> task.description, completed |-> task.completed,
     created_at |-> isoformat(task.created_at),
     updated_at |-> isoformat(task.updated_at)]

\* CreateTaskRequest: title: str = Field(..., min_length=1, max_length=200)
CreateTaskRequest(body) ==
    IF Len(body.title) < 1 THEN Invalid("string_too_short")
    ELSE IF Len(body.title) > 200 THEN Invalid("string_too_long")
    ELSE Valid

\* UpdateTaskRequest: title: str | None = Field(None, min_length=1, max_length=200)
UpdateTaskRequest(body) ==
    IF body.title = None THEN Valid
    ELSE IF Len(body.title[1]) < 1 THEN Invalid("string_too_short")
    ELSE IF Len(body.title[1]) > 200 THEN Invalid("string_too_long")
    ELSE Valid

\* the Authorization header of a request: absent, or "<scheme> <credentials>"
NoHeader == None
Header(scheme, token) == Some([scheme |-> scheme, token |-> token])

\* a valid bearer header of user_id, issued at time t
BearerOf(user_id, t) == Header("Bearer", create_access_token(user_id, "alice@example.com", t))

\* str.lower() of the schemes clients send
SchemeLower(scheme) == IF scheme \in {"Bearer", "bearer", "BEARER"} THEN "bearer" ELSE "basic"

\* what a dependency gives: a value, or the HTTPException it raises
Return(value) == [ok |-> TRUE, status |-> 200, detail |-> "", value |-> value]
Raise(status, detail) == [ok |-> FALSE, status |-> status, detail |-> detail, value |-> 0]

\* security = HTTPBearer(): no header, or no credentials after the scheme, is
\* answered 403 "Not authenticated" (test_get_tasks_no_token); so is another scheme
HTTPBearer(authorization) ==
    IF authorization = None THEN Raise(403, "Not authenticated")
    ELSE IF authorization[1].token = TextToken("") THEN Raise(403, "Not authenticated")
    ELSE IF SchemeLower(authorization[1].scheme) # "bearer"
    THEN Raise(403, "Invalid authentication credentials")
    ELSE Return(authorization[1].token)

\* Depends(dependency): what follows runs on the dependency's value, and its
\* HTTPException is what the caller gets otherwise
DependsOn(dep, then(_)) == IF ~dep.ok THEN dep ELSE then(dep.value)

get_current_user(authorization, clock) ==
    LET body(token) ==
            LET user_id == get_user_id_from_token(token, clock)
            IN  IF user_id = None
                THEN Raise(401, "Invalid authentication credentials")
                ELSE Return(user_id[1])
    IN  DependsOn(HTTPBearer(authorization), body)

verify_user_access_unchecked(user_id, authorization, clock) ==
    LET body(current_user) == Return(current_user)
    IN  DependsOn(get_current_user(authorization, clock), body)

verify_user_access(user_id, authorization, clock) ==
    LET body(current_user) ==
            IF current_user # user_id
            THEN Raise(403, "Cannot access another user's tasks")
            ELSE Return(current_user)
    IN  DependsOn(get_current_user(authorization, clock), body)

\* the answer to a request: status, detail of an error, body of a success, the
\* service function that ran, and the tables after the request
Response(status, detail, body, svc, store, seq) ==
    [status |-> status, detail |-> detail, body |-> body, svc |-> svc,
     store |-> store, seq |-> seq]

\* an HTTPException or a RequestValidationError raised before the handler body
Rejected(status, detail, store, seq) == Response(status, detail, None, "none", store, seq)

\* a route with Depends(verify_user_access): the handler runs on the verified
\* user, or the dependency's HTTPException is the answer
Route(dep, store, seq, handler(_)) ==
    IF ~dep.ok THEN Rejected(dep.status, dep.detail, store, seq) ELSE handler(dep.value)

\* the task a service call returned, or 404 "Task not found" when it returned None
TaskOr404(r, svc, seq) ==
    IF r.result = None
    THEN Response(404, "Task not found", None, svc, r.store, seq)
    ELSE Response(200, "", Some(TaskResponse_from_task(r.result[1])), svc, r.store, seq)

\* GET /{user_id}/tasks
route_get_tasks(store, seq, clock, authorization, user_id) ==
    LET handler(verified_user) ==
            Response(200, "",
                     Some({TaskResponse_from_task(t) : t \in get_all_tasks(store, verified_user)}),
                     "get_all_tasks", store, seq)
    IN  Route(verify_user_access(user_id, authorization, clock), store, seq, handler)

\* POST /{user_id}/tasks
route_create_task(store, seq, clock, authorization, user_id, request) ==
    LET created(r) ==
            Response(201, "", Some(TaskResponse_from_task(r.result[1])), "create_task",
                     r.store, r.seq)
        handler(verified_user) ==
            IF ~CreateTaskRequest(request).ok
            THEN Rejected(422, CreateTaskRequest(request).error, store, seq)
            ELSE created(create_task(store, seq, clock, verified_user,
                                     request.title, request.description))
    IN  Route(verify_user_access(user_id, authorization, clock), store, seq, handler)

route_get_task_lookup_first(store, seq, clock, authorization, user_id, task_id) ==
    LET handler(verified_user) ==
            TaskOr404([store |-> store, result |-> get_task(store, verified_user, task_id)],
                      "get_task", seq)
    IN  IF get_task(store, user_id, task_id) = None
        THEN Response(404, "Task not found", None, "get_task", store, seq)
        ELSE Route(verify_user_access(user_id, authorization, clock), store, seq, handler)

\* GET /{user_id}/tasks/{task_id}
route_get_task(store, seq, clock, authorization, user_id, task_id) ==
    LET handler(verified_user) ==
            TaskOr404([store |-> store, result |-> get_task(store, verified_user, task_id)],
                      "get_task", seq)
    IN  Route(verify_user_access(user_id, authorization, clock), store, seq, handler)

\* PATCH /{user_id}/tasks/{task_id}
route_update_task(store, seq, clock, authorization, user_id, task_id, request) ==
    LET handler(verified_user) ==
            IF ~UpdateTaskRequest(request).ok
            THEN Rejected(422, UpdateTaskRequest(request).error, store, seq)
            ELSE TaskOr404(update_task(store, clock, verified_user, task_id, request.title,
                                       request.description, request.completed),
                           "update_task", seq)
    IN  Route(verify_user_access(user_id, authorization, clock), store, seq, handler)

\* POST /{user_id}/tasks/{task_id}/toggle
route_toggle_task(store, seq, clock, authorization, user_id, task_id) ==
    LET handler(verified_user) ==
            TaskOr404(toggle_task_completed(store, clock, verified_user, task_id),
                      "toggle_task_completed", seq)
    IN  Route(verify_user_access(user_id, authorization, clock), store, seq, handler)

\* DELETE /{user_id}/tasks/{task_id}
route_delete_task(store, seq, clock, authorization, user_id, task_id) ==
    LET deleted(r) ==
            IF ~r.result
            THEN Response(404, "Task not found", None, "delete_task", r.store, seq)
            ELSE Response(204, "", None, "delete_task", r.store, seq)
        handler(verified_user) == deleted(delete_task(store, verified_user, task_id))
    IN  Route(verify_user_access(user_id, authorization, clock), store, seq, handler)

-----------------------------------------------------------------------------
(* Direct calls of the task service, as the unit tests and the routes make  *)
(* them.  One action is one call: the whole function, commit included.      *)

NoLast == [op |-> "none", kind |-> "none", ok |-> FALSE]

\* how the task id named in a call relates to the caller, before the call
KindOf(store, user_id, task_id) ==
    IF \E t \in store : t.id = task_id /\ t.user_id = user_id THEN "own"
    ELSE IF \E t \in store : t.id = task_id THEN "foreign"
    ELSE "missing"

\* bodies a client sends when it creates a task
CreateBodies ==
    { [title |-> Title(1), description |-> None],
      [title |-> Title(2), description |-> Some("milk")] }

\* bodies a client sends when it updates a task
UpdateBodies ==
    { [title |-> None, description |-> None, completed |-> None],
      [title |-> Some(Title(2)), description |-> None, completed |-> None],
      [title |-> None, description |-> Some("eggs"), completed |-> None],
      [title |-> None, description |-> None, completed |-> Some(TRUE)],
      [title |-> Some(Title(1)), description |-> Some("milk"), completed |-> Some(FALSE)] }

Tick ==
    /\ now < MaxTime
    /\ now' = now + 1
    /\ UNCHANGED <<users, calls, layer, served, conversations, messages, sessions, tasks, nextId, last, writes, cliTasks, held, hist>>

SvcGetAll ==
    /\ layer = "service"
    /\ \E u \in Users :
         last' = [op |-> "get_all_tasks", kind |-> "own", ok |-> TRUE,
                  caller |-> u, rows |-> get_all_tasks(tasks, u)]
    /\ UNCHANGED <<users, calls, layer, served, conversations, messages, sessions, now, tasks, nextId, writes, cliTasks, held, hist>>

SvcGet ==
    /\ layer = "service"
    /\ \E u \in Users, id \in TaskIds :
         last' = [op |-> "get_task", kind |-> KindOf(tasks, u, id),
                  ok |-> get_task(tasks, u, id) # None]
    /\ UNCHANGED <<users, calls, layer, served, conversations, messages, sessions, now, tasks, nextId, writes, cliTasks, held, hist>>

SvcCreate ==
    /\ layer = "service"
    /\ nextId <= MaxTasks
    /\ writes < MaxWrites
    /\ \E u \in Users, b \in CreateBodies :
         LET r == create_task(tasks, nextId, now, u, b.title, b.description)
         IN  /\ tasks' = r.store
             /\ nextId' = r.seq
             /\ last' = [op |-> "create_task", kind |-> "own", ok |-> TRUE]
    /\ writes' = writes + 1
    /\ UNCHANGED <<users, calls, layer, served, conversations, messages, sessions, now, cliTasks, held, hist>>

SvcUpdate ==
    /\ layer = "service"
    /\ \E u \in Users, id \in TaskIds, b \in UpdateBodies :
         LET r == update_task(tasks, now, u, id, b.title, b.description, b.completed)
         IN  /\ tasks' = r.store
             /\ last' = [op |-> "update_task", kind |-> KindOf(tasks, u, id),
                         ok |-> r.result # None]
             /\ writes' = IF r.result # None THEN writes + 1 ELSE writes
    /\ writes' <= MaxWrites
    /\ UNCHANGED <<users, calls, layer, served, conversations, messages, sessions, now, nextId, cliTasks, held, hist>>

SvcToggle ==
    /\ layer = "service"
    /\ \E u \in Users, id \in TaskIds :
         LET r == toggle_task_completed(tasks, now, u, id)
         IN  /\ tasks' = r.store
             /\ last' = [op |-> "toggle_task_completed", kind |-> KindOf(tasks, u, id),
                         ok |-> r.result # None]
             /\ writes' = IF r.result # None THEN writes + 1 ELSE writes
    /\ writes' <= MaxWrites
    /\ UNCHANGED <<users, calls, layer, served, conversations, messages, sessions, now, nextId, cliTasks, held, hist>>

SvcDelete ==
    /\ layer = "service"
    /\ \E u \in Users, id \in TaskIds :
         LET r == delete_task(tasks, u, id)
         IN  /\ tasks' = r.store
             /\ last' = [op |-> "delete_task", kind |-> KindOf(tasks, u, id),
                         ok |-> r.result]
             /\ writes' = IF r.result THEN writes + 1 ELSE writes
    /\ writes' <= MaxWrites
    /\ UNCHANGED <<users, calls, layer, served, conversations, messages, sessions, now, nextId, cliTasks, held, hist>>

\* user ids and titles typed at the CLI
CliUserIds == {<<"a">>, <<"b">>}
CliBadUserIds == {<<>>, <<" ">>}
CliTitles == {Title(0), Title(1), Title(2)}

CliCreate ==
    /\ layer = "cli"
    /\ \E u \in CliUserIds \cup CliBadUserIds, title \in CliTitles, db_fails \in BOOLEAN :
         LET r == TaskService_create_task(cliTasks, now, u, title, db_fails)
         IN  /\ cliTasks' = r.store
             /\ last' = [op |-> "TaskService.create_task", kind |-> r.raised,
                         ok |-> r.result # None, same |-> r.store = cliTasks]
             /\ writes' = IF r.result # None THEN writes + 1 ELSE writes
    /\ writes' <= MaxWrites
    /\ UNCHANGED <<users, calls, layer, served, conversations, messages, sessions, now, tasks, nextId, held, hist>>

CliGetTasks ==
    /\ layer = "cli"
    /\ \E u \in CliUserIds :
         last' = [op |-> "TaskService.get_tasks_for_user", kind |-> "own", ok |-> TRUE,
                  caller |-> u, rows |-> TaskService_get_tasks_for_user(cliTasks, u)]
    /\ UNCHANGED <<users, calls, layer, served, conversations, messages, sessions, now, tasks, nextId, writes, cliTasks, held, hist>>

Init ==
    /\ layer \in {"service", "cli"}
    /\ now = 0
    /\ tasks = {}
    /\ nextId = 1
    /\ last = NoLast
    /\ writes = 0
    /\ cliTasks = {}
    /\ held = None
    /\ hist = <<>>
    /\ users = {}
    /\ calls = NoCalls
    /\ served = NoneServed
    /\ conversations = {}
    /\ messages = {}
    /\ sessions = NoSessions

Next ==
    \/ Tick
    \/ SvcGetAll
    \/ SvcGet
    \/ SvcCreate
    \/ SvcUpdate
    \/ SvcToggle
    \/ SvcDelete
    \/ CliCreate
    \/ CliGetTasks

Spec == Init /\ [][Next]_vars

-----------------------------------------------------------------------------
(* Calls of the token service, as signup, signin, get_current_user and the   *)
(* unit tests make them                                                      *)

Emails == {"alice@example.com", "bob@example.com"}

\* user ids a token is issued for
IssuedUids == {-1, 0, 1, 2, 10, 42, 123}

\* bearer strings that create_access_token did not produce for a live account
BadTokens(clock) ==
    { [class |-> "empty", token |-> TextToken("")],
      [class |-> "malformed", token |-> TextToken("invalid.token.here")],
      [class |-> "unsigned",
       token |-> jwt_encode(StrSub(IntToStr(1)), "alice@example.com",
                            clock + JWT_EXPIRATION_DAYS, "")],
      [class |-> "other secret",
       token |-> jwt_encode(StrSub(IntToStr(1)), "alice@example.com",
                            clock + JWT_EXPIRATION_DAYS, "guessed-secret")],
      [class |-> "expired",
       token |-> jwt_encode(StrSub(IntToStr(1)), "alice@example.com",
                            clock - 1, JWT_SECRET)],
      [class |-> "sub missing",
       token |-> jwt_encode(NoSub, "alice@example.com",
                            clock + JWT_EXPIRATION_DAYS, JWT_SECRET)],
      [class |-> "sub empty",
       token |-> jwt_encode(StrSub(<<>>), "alice@example.com",
                            clock + JWT_EXPIRATION_DAYS, JWT_SECRET)],
      [class |-> "sub not an integer",
       token |-> jwt_encode(StrSub(<<"a", "b", "c">>), "alice@example.com",
                            clock + JWT_EXPIRATION_DAYS, JWT_SECRET)],
      [class |-> "sub not an integer",
       token |-> jwt_encode(StrSub(<<"1", ".", "5">>), "alice@example.com",
                            clock + JWT_EXPIRATION_DAYS, JWT_SECRET)],
      [class |-> "sub not an integer",
       token |-> jwt_encode(StrSub(<<" ">>), "alice@example.com",
                            clock + JWT_EXPIRATION_DAYS, JWT_SECRET)],
      [class |-> "sub not a string",
       token |-> jwt_encode(NumSub(1), "alice@example.com",
                            clock + JWT_EXPIRATION_DAYS, JWT_SECRET)] }

AuthTick ==
    /\ layer = "auth"
    /\ now < MaxTime + JWT_EXPIRATION_DAYS
    /\ now' = now + 1
    /\ UNCHANGED <<users, calls, layer, served, conversations, messages, sessions, tasks, nextId, last, writes, cliTasks, held, hist>>

AuthIssue ==
    /\ layer = "auth"
    /\ \E uid \in IssuedUids, email \in Emails :
         LET tok == create_access_token(uid, email, now)
         IN  /\ held' = Some([token |-> tok, user_id |-> uid, email |-> email,
                              issued_at |-> now])
             /\ last' = [op |-> "create_access_token", kind |-> "issued", ok |-> TRUE]
    /\ UNCHANGED <<users, calls, layer, served, conversations, messages, sessions, now, tasks, nextId, writes, cliTasks, hist>>

AuthDecodeHeld ==
    /\ layer = "auth"
    /\ held # None
    /\ last' = [op |-> "get_user_id_from_token", kind |-> "issued", at |-> now,
                ok |-> get_user_id_from_token(held[1].token, now) # None,
                payload |-> decode_access_token(held[1].token, now),
                result |-> get_user_id_from_token(held[1].token, now)]
    /\ UNCHANGED <<users, calls, layer, served, conversations, messages, sessions, now, tasks, nextId, writes, cliTasks, held, hist>>

AuthDecodeBad ==
    /\ layer = "auth"
    /\ \E bad \in BadTokens(now) :
         last' = [op |-> "get_user_id_from_token", kind |-> bad.class, at |-> now,
                  ok |-> get_user_id_from_token(bad.token, now) # None,
                  payload |-> decode_access_token(bad.token, now),
                  result |-> get_user_id_from_token(bad.token, now)]
    /\ UNCHANGED <<users, calls, layer, served, conversations, messages, sessions, now, tasks, nextId, writes, cliTasks, held, hist>>

InitAuth ==
    /\ layer = "auth"
    /\ now = 0
    /\ tasks = {}
    /\ nextId = 1
    /\ last = NoLast
    /\ writes = 0
    /\ cliTasks = {}
    /\ held = None
    /\ hist = <<>>
    /\ users = {}
    /\ calls = NoCalls
    /\ served = NoneServed
    /\ conversations = {}
    /\ messages = {}
    /\ sessions = NoSessions

NextAuth ==
    \/ AuthTick
    \/ AuthIssue
    \/ AuthDecodeHeld
    \/ AuthDecodeBad

SpecAuth == InitAuth /\ [][NextAuth]_vars

-----------------------------------------------------------------------------
(* Requests to the task endpoints.  One action is one request: the          *)
(* dependencies, the validation of the body and the handler.                *)

\* bodies sent to POST /{user_id}/tasks
HttpCreateBodies ==
    { [title |-> Title(1), description |-> Some("milk")],
      [title |-> Title(0), description |-> None] }

\* bodies sent to PATCH /{user_id}/tasks/{task_id}
HttpUpdateBodies ==
    { [title |-> None, description |-> None, completed |-> None],
      [title |-> Some(Title(2)), description |-> None, completed |-> Some(TRUE)],
      [title |-> Some(Title(0)), description |-> None, completed |-> None] }

\* Authorization headers sent with a request to /api/{user_id}/...
Headers(clock, user_id) ==
    { [class |-> "absent", header |-> NoHeader],
      [class |-> "empty", header |-> Header("Bearer", TextToken(""))],
      [class |-> "invalid", header |-> Header("Bearer", TextToken("invalid.token.here"))],
      [class |-> "invalid",
       header |-> Header("Bearer", jwt_encode(StrSub(IntToStr(user_id)), "alice@example.com",
                                              clock - 1, JWT_SECRET))],
      [class |-> "own",
       header |-> Header("Bearer", create_access_token(user_id, "alice@example.com", clock))] }
    \cup { [class |-> "other",
            header |-> Header("Bearer", create_access_token(v, "bob@example.com", clock))] :
           v \in Users \ {user_id} }

\* task ids and bodies named in a request: every one with the caller's own
\* token, one with a credential that is turned away
IdsFor(h) == IF h.class = "own" THEN TaskIds ELSE {1}
BodiesFor(h, bodies) ==
    IF h.class \in {"own", "other"} THEN bodies ELSE {CHOOSE b \in bodies : TRUE}

\* the record of the request just answered
Answered(op, kind, h, r, store) ==
    [op |-> op, kind |-> kind, ok |-> r.status < 400, status |-> r.status,
     detail |-> r.detail, cred |-> h.class, svc |-> r.svc, same |-> r.store = store]

HttpGetTasks ==
    /\ layer = "http"
    /\ \E u \in Users : \E h \in Headers(now, u) :
         \E r \in {route_get_tasks(tasks, nextId, now, h.header, u)} :
             last' = Answered("get_tasks", "none", h, r, tasks)
    /\ UNCHANGED <<users, calls, layer, served, conversations, messages, sessions, now, tasks, nextId, writes, cliTasks, held, hist>>

HttpCreateTask ==
    /\ layer = "http"
    /\ nextId <= MaxTasks
    /\ \E u \in Users : \E h \in Headers(now, u) : \E b \in BodiesFor(h, HttpCreateBodies) :
         \E r \in {route_create_task(tasks, nextId, now, h.header, u, b)} :
             /\ tasks' = r.store
             /\ nextId' = r.seq
             /\ writes' = IF r.store # tasks THEN writes + 1 ELSE writes
             /\ last' = Answered("create_task", "none", h, r, tasks)
    /\ writes' <= MaxWrites
    /\ UNCHANGED <<users, calls, layer, served, conversations, messages, sessions, now, cliTasks, held, hist>>

HttpGetTask ==
    /\ layer = "http"
    /\ \E u \in Users : \E h \in Headers(now, u) : \E id \in IdsFor(h) :
         \E r \in {route_get_task(tasks, nextId, now, h.header, u, id)} :
             last' = Answered("get_task", KindOf(tasks, u, id), h, r, tasks)
    /\ UNCHANGED <<users, calls, layer, served, conversations, messages, sessions, now, tasks, nextId, writes, cliTasks, held, hist>>

HttpUpdateTask ==
    /\ layer = "http"
    /\ \E u \in Users : \E h \in Headers(now, u) : \E id \in IdsFor(h) :
       \E b \in BodiesFor(h, HttpUpdateBodies) :
         \E r \in {route_update_task(tasks, nextId, now, h.header, u, id, b)} :
             /\ tasks' = r.store
             /\ writes' = IF r.status = 200 THEN writes + 1 ELSE writes
             /\ last' = Answered("update_task", KindOf(tasks, u, id), h, r, tasks)
    /\ writes' <= MaxWrites
    /\ UNCHANGED <<users, calls, layer, served, conversations, messages, sessions, now, nextId, cliTasks, held, hist>>

HttpToggleTask ==
    /\ layer = "http"
    /\ \E u \in Users : \E h \in Headers(now, u) : \E id \in IdsFor(h) :
         \E r \in {route_toggle_task(tasks, nextId, now, h.header, u, id)} :
             /\ tasks' = r.store
             /\ writes' = IF r.status = 200 THEN writes + 1 ELSE writes
             /\ last' = Answered("toggle_task", KindOf(tasks, u, id), h, r, tasks)
    /\ writes' <= MaxWrites
    /\ UNCHANGED <<users, calls, layer, served, conversations, messages, sessions, now, nextId, cliTasks, held, hist>>

HttpDeleteTask ==
    /\ layer = "http"
    /\ \E u \in Users : \E h \in Headers(now, u) : \E id \in IdsFor(h) :
         \E r \in {route_delete_task(tasks, nextId, now, h.header, u, id)} :
             /\ tasks' = r.store
             /\ writes' = IF r.status = 204 THEN writes + 1 ELSE writes
             /\ last' = Answered("delete_task", KindOf(tasks, u, id), h, r, tasks)
    /\ writes' <= MaxWrites
    /\ UNCHANGED <<users, calls, layer, served, conversations, messages, sessions, now, nextId, cliTasks, held, hist>>

\* the server is up at some clock reading and the tables are empty; the requests
\* of a run are answered at that reading (time passing between calls is followed
\* in the service-call and token specifications)
InitHttp ==
    /\ layer = "http"
    /\ now \in 0..MaxTime
    /\ tasks = {}
    /\ nextId = 1
    /\ last = NoLast
    /\ writes = 0
    /\ cliTasks = {}
    /\ held = None
    /\ hist = <<>>
    /\ users = {}
    /\ calls = NoCalls
    /\ served = NoneServed
    /\ conversations = {}
    /\ messages = {}
    /\ sessions = NoSessions

NextHttp ==
    \/ HttpGetTasks
    \/ HttpCreateTask
    \/ HttpGetTask
    \/ HttpUpdateTask
    \/ HttpToggleTask
    \/ HttpDeleteTask

SpecHttp == InitHttp /\ [][NextHttp]_vars

-----------------------------------------------------------------------------
(* Successive toggles of a task.  hist holds the successful toggles of one   *)
(* task made since the last other write: the row before, the row the call    *)
(* returned, and the clock reading of the call.                              *)

ToggleTick ==
    /\ layer = "toggle"
    /\ now < MaxTime
    /\ now' = now + 1
    /\ UNCHANGED <<users, calls, layer, served, conversations, messages, sessions, tasks, nextId, last, writes, cliTasks, held, hist>>

ToggleCreate ==
    /\ layer = "toggle"
    /\ nextId <= MaxTasks
    /\ writes < MaxWrites
    /\ \E u \in Users :
         \E r \in {create_task(tasks, nextId, now, u, Title(1), None)} :
             /\ tasks' = r.store
             /\ nextId' = r.seq
    /\ writes' = writes + 1
    /\ hist' = <<>>
    /\ UNCHANGED <<users, calls, layer, served, conversations, messages, sessions, now, last, cliTasks, held>>

\* PATCH {"completed": ...}: the set-completed operation
ToggleSetCompleted ==
    /\ layer = "toggle"
    /\ writes < MaxWrites
    /\ \E u \in Users, id \in TaskIds, c \in BOOLEAN :
         \E r \in {update_task(tasks, now, u, id, None, None, Some(c))} :
             /\ r.result # None
             /\ tasks' = r.store
    /\ writes' = writes + 1
    /\ hist' = <<>>
    /\ UNCHANGED <<users, calls, layer, served, conversations, messages, sessions, now, nextId, last, cliTasks, held>>

ToggleCall ==
    /\ layer = "toggle"
    /\ \E u \in Users, id \in TaskIds :
         \E r \in {toggle_task_completed(tasks, now, u, id)} :
             /\ tasks' = r.store
             /\ hist' = IF r.result = None THEN hist
                        ELSE (IF hist # <<>> /\ hist[1].before.id = id THEN hist ELSE <<>>)
                             \o <<[before |-> get_task(tasks, u, id)[1],
                                   after |-> r.result[1], at |-> now]>>
    /\ Len(hist') <= MaxToggles
    /\ UNCHANGED <<users, calls, layer, served, conversations, messages, sessions, now, nextId, last, writes, cliTasks, held>>

InitToggle ==
    /\ layer = "toggle"
    /\ now = 0
    /\ tasks = {}
    /\ nextId = 1
    /\ last = NoLast
    /\ writes = 0
    /\ cliTasks = {}
    /\ held = None
    /\ hist = <<>>
    /\ users = {}
    /\ calls = NoCalls
    /\ served = NoneServed
    /\ conversations = {}
    /\ messages = {}
    /\ sessions = NoSessions

NextToggle ==
    \/ ToggleTick
    \/ ToggleCreate
    \/ ToggleSetCompleted
    \/ ToggleCall

SpecToggle == InitToggle /\ [][NextToggle]_vars

-----------------------------------------------------------------------------
(* Titles at the boundaries of the accepted lengths, given to the CLI        *)
(* validator, the CLI service (Phase I Task model), POST and PATCH           *)

\* lengths of the titles sent: around both ends of the accepted interval
TitleLengths == {0, 1, 2, MAX_TITLE_LENGTH - 1, MAX_TITLE_LENGTH, MAX_TITLE_LENGTH + 1}

TitleValidate ==
    /\ layer = "title"
    /\ \E n \in TitleLengths :
         last' = [op |-> "validate_title", kind |-> validate_title(Title(n)).error,
                  ok |-> validate_title(Title(n)).ok, len |-> n]
    /\ UNCHANGED <<users, calls, layer, served, conversations, messages, sessions, now, tasks, nextId, writes, cliTasks, held, hist>>

TitleCliCreate ==
    /\ layer = "title"
    /\ \E n \in TitleLengths :
         \E r \in {TaskService_create_task(cliTasks, now, <<"a">>, Title(n), FALSE)} :
             /\ cliTasks' = r.store
             /\ writes' = IF r.result # None THEN writes + 1 ELSE writes
             /\ last' = [op |-> "TaskService.create_task", kind |-> r.raised,
                         ok |-> r.result # None, len |-> n]
    /\ writes' <= MaxWrites
    /\ UNCHANGED <<users, calls, layer, served, conversations, messages, sessions, now, tasks, nextId, held, hist>>

TitlePost ==
    /\ layer = "title"
    /\ nextId <= MaxTasks
    /\ \E n \in TitleLengths :
         \E r \in {route_create_task(tasks, nextId, now, BearerOf(1, now), 1,
                                     [title |-> Title(n), description |-> None])} :
             /\ tasks' = r.store
             /\ nextId' = r.seq
             /\ writes' = IF r.status = 201 THEN writes + 1 ELSE writes
             /\ last' = [op |-> "create_task", kind |-> r.detail, ok |-> r.status = 201,
                         len |-> n, status |-> r.status]
    /\ writes' <= MaxWrites
    /\ UNCHANGED <<users, calls, layer, served, conversations, messages, sessions, now, cliTasks, held, hist>>

TitlePatch ==
    /\ layer = "title"
    /\ \E n \in TitleLengths, id \in {t.id : t \in tasks} :
         \E r \in {route_update_task(tasks, nextId, now, BearerOf(1, now), 1, id,
                                     [title |-> Some(Title(n)), description |-> None,
                                      completed |-> None])} :
             /\ tasks' = r.store
             /\ writes' = IF r.status = 200 THEN writes + 1 ELSE writes
             /\ last' = [op |-> "update_task", kind |-> r.detail, ok |-> r.status = 200,
                         len |-> n, status |-> r.status]
    /\ writes' <= MaxWrites
    /\ UNCHANGED <<users, calls, layer, served, conversations, messages, sessions, now, nextId, cliTasks, held, hist>>

InitTitle ==
    /\ layer = "title"
    /\ now = 0
    /\ tasks = {}
    /\ nextId = 1
    /\ last = NoLast
    /\ writes = 0
    /\ cliTasks = {}
    /\ held = None
    /\ hist = <<>>
    /\ users = {}
    /\ calls = NoCalls
    /\ served = NoneServed
    /\ conversations = {}
    /\ messages = {}
    /\ sessions = NoSessions

NextTitle ==
    \/ TitleValidate
    \/ TitleCliCreate
    \/ TitlePost
    \/ TitlePatch

SpecTitle == InitTitle /\ [][NextTitle]_vars

-----------------------------------------------------------------------------
(* src/interactive.py: the menu of the interactive console.  actor is the    *)
(* person at the keyboard; the console asks a username only when adding or   *)
(* when listing one user's tasks.                                            *)

\* text typed at "Enter task ID": the decimal of an id, or not a number
TypedIds == {IntToStr(i) : i \in TaskIds} \cup {<<"a">>}

\* answers typed at "Delete task ...? (yes/no)"
Confirmations == {"yes", "Y", "no"}

\* str.lower() of the answers typed
ConfirmLower(c) == IF c = "Y" THEN "y" ELSE c

\* add_task: strip and validate both inputs, then service.create_task
console_add_task(store, clock, typed_user, typed_title) ==
    IF ~validate_user_id(Strip(typed_user)).ok
    THEN [store |-> store, out |-> "ERROR", rows |-> {}]
    ELSE IF ~validate_title(Strip(typed_title)).ok
    THEN [store |-> store, out |-> "ERROR", rows |-> {}]
    ELSE [store |-> TaskService_create_task(store, clock, Strip(typed_user),
                                            Strip(typed_title), FALSE).store,
          out |-> "SUCCESS",
          rows |-> TaskService_create_task(store, clock, Strip(typed_user),
                                           Strip(typed_title), FALSE).store \ store]

\* view_all_tasks: select(Task), every row printed under its user
console_view_all_tasks(store) ==
    [store |-> store, out |-> IF store = {} THEN "No tasks found" ELSE "ALL TASKS",
     rows |-> store]

\* view_user_tasks: service.get_tasks_for_user of the username typed
console_view_user_tasks(store, typed_user) ==
    IF ~validate_user_id(Strip(typed_user)).ok
    THEN [store |-> store, out |-> "ERROR", rows |-> {}]
    ELSE [store |-> store, out |-> "Tasks for",
          rows |-> TaskService_get_tasks_for_user(store, Strip(typed_user))]

\* mark_complete: select(Task).where(Task.id == task_id).first(), then
\* completed = True, updated_at = utcnow(), commit
console_mark_complete(store, clock, typed_id) ==
    LET rows == IF StrToInt(Strip(typed_id)) = None THEN {}
                ELSE {t \in store : t.id = StrToInt(Strip(typed_id))[1]}
    IN  IF StrToInt(Strip(typed_id)) = None
        THEN [store |-> store, out |-> "ERROR", rows |-> {}]
        ELSE IF rows = {} THEN [store |-> store, out |-> "not found", rows |-> {}]
        ELSE IF \A t \in rows : t.completed
        THEN [store |-> store, out |-> "already completed", rows |-> rows]
        ELSE [store |-> (store \ rows)
                          \cup {[t EXCEPT !.completed = TRUE, !.updated_at = clock] :
                                  t \in rows},
              out |-> "marked as complete", rows |-> rows]

\* delete_task: select(Task).where(Task.id == task_id).first(), confirm, delete, commit
console_delete_task(store, typed_id, confirm) ==
    LET rows == IF StrToInt(Strip(typed_id)) = None THEN {}
                ELSE {t \in store : t.id = StrToInt(Strip(typed_id))[1]}
    IN  IF StrToInt(Strip(typed_id)) = None
        THEN [store |-> store, out |-> "ERROR", rows |-> {}]
        ELSE IF rows = {} THEN [store |-> store, out |-> "not found", rows |-> {}]
        ELSE IF ConfirmLower(confirm) \in {"yes", "y"}
        THEN [store |-> store \ rows, out |-> "deleted", rows |-> rows]
        ELSE [store |-> store, out |-> "cancelled", rows |-> rows]

\* what the menu choice just made did: whose tasks it showed or touched, for whom
ConsoleDid(op, actor, r, store) ==
    [op |-> op, kind |-> r.out, ok |-> r.out # "ERROR", actor |-> actor,
     owners |-> {t.user_id : t \in r.rows}, same |-> r.store = store]

ConsoleTick ==
    /\ layer = "console"
    /\ now < MaxTime
    /\ now' = now + 1
    /\ UNCHANGED <<users, calls, layer, served, conversations, messages, sessions, tasks, nextId, last, writes, cliTasks, held, hist>>

ConsoleAddTask ==
    /\ layer = "console"
    /\ writes < MaxWrites
    /\ \E actor \in CliUserIds, title \in {Title(0), <<" ", "x">>} :
         \E r \in {console_add_task(cliTasks, now, actor, title)} :
             /\ cliTasks' = r.store
             /\ writes' = IF r.store # cliTasks THEN writes + 1 ELSE writes
             /\ last' = ConsoleDid("add_task", actor, r, cliTasks)
    /\ UNCHANGED <<users, calls, layer, served, conversations, messages, sessions, now, tasks, nextId, held, hist>>

ConsoleViewAllTasks ==
    /\ layer = "console"
    /\ \E actor \in CliUserIds :
         \E r \in {console_view_all_tasks(cliTasks)} :
             last' = ConsoleDid("view_all_tasks", actor, r, cliTasks)
    /\ UNCHANGED <<users, calls, layer, served, conversations, messages, sessions, now, tasks, nextId, writes, cliTasks, held, hist>>

ConsoleViewUserTasks ==
    /\ layer = "console"
    /\ \E actor \in CliUserIds : \E typed \in {actor, <<" ">>} :
         \E r \in {console_view_user_tasks(cliTasks, typed)} :
             last' = ConsoleDid("view_user_tasks", actor, r, cliTasks)
    /\ UNCHANGED <<users, calls, layer, served, conversations, messages, sessions, now, tasks, nextId, writes, cliTasks, held, hist>>

ConsoleMarkComplete ==
    /\ layer = "console"
    /\ \E actor \in CliUserIds, typed \in TypedIds :
         \E r \in {console_mark_complete(cliTasks, now, typed)} :
             /\ cliTasks' = r.store
             /\ writes' = IF r.store # cliTasks THEN writes + 1 ELSE writes
             /\ last' = ConsoleDid("mark_complete", actor, r, cliTasks)
    /\ writes' <= MaxWrites
    /\ UNCHANGED <<users, calls, layer, served, conversations, messages, sessions, now, tasks, nextId, held, hist>>

ConsoleDeleteTask ==
    /\ layer = "console"
    /\ \E actor \in CliUserIds, typed \in TypedIds, confirm \in Confirmations :
         \E r \in {console_delete_task(cliTasks, typed, confirm)} :
             /\ cliTasks' = r.store
             /\ writes' = IF r.store # cliTasks THEN writes + 1 ELSE writes
             /\ last' = ConsoleDid("delete_task", actor, r, cliTasks)
    /\ writes' <= MaxWrites
    /\ UNCHANGED <<users, calls, layer, served, conversations, messages, sessions, now, tasks, nextId, held, hist>>

InitConsole ==
    /\ layer = "console"
    /\ now = 0
    /\ tasks = {}
    /\ nextId = 1
    /\ last = NoLast
    /\ writes = 0
    /\ cliTasks = {}
    /\ held = None
    /\ hist = <<>>
    /\ users = {}
    /\ calls = NoCalls
    /\ served = NoneServed
    /\ conversations = {}
    /\ messages = {}
    /\ sessions = NoSessions

NextConsole ==
    \/ ConsoleTick
    \/ ConsoleAddTask
    \/ ConsoleViewAllTasks
    \/ ConsoleViewUserTasks
    \/ ConsoleMarkComplete
    \/ ConsoleDeleteTask

SpecConsole == InitConsole /\ [][NextConsole]_vars

-----------------------------------------------------------------------------
(* src/cli/commands/add.py: todo add --user <id> <title>.  One action is one  *)
(* run of the command.                                                        *)

\* the text of the exception SQLite raises when the file cannot be opened or written
DbErrorText == "(sqlite3.OperationalError) unable to open database file"

\* how a run of the command ends: exit code, the parts of the line it prints,
\* the steps it reached, and the table afterwards
Exit(code, message, reached, store) ==
    [exit_code |-> code, message |-> message, reached |-> reached, store |-> store]

cli_add_one_error_code(store, clock, argv, init_fails, commit_fails) ==
    IF argv.user = None \/ argv.title = None
    THEN Exit(1, <<"Error: Missing option '--user'.">>, {}, store)
    ELSE IF ~validate_user_id(argv.user[1]).ok \/ ~validate_title(argv.title[1]).ok
    THEN Exit(1, <<"Error: ", "invalid">>, {}, store)
    ELSE IF init_fails
    THEN Exit(1, <<"Unexpected error: ">>, {"init_db"}, store)
    ELSE IF TaskService_create_task(store, clock, argv.user[1], argv.title[1],
                                    commit_fails).raised # "none"
    THEN Exit(1, <<"Unexpected error: ">>, {"init_db", "create_task"}, store)
    ELSE Exit(0, <<"Task created">>, {"init_db", "create_task"},
              TaskService_create_task(store, clock, argv.user[1], argv.title[1],
                                      commit_fails).store)

\* add(user, title) under click: a missing required option or argument is a usage
\* error (exit 2) raised before the function body runs
cli_add(store, clock, argv, init_fails, commit_fails) ==
    IF argv.user = None
    THEN Exit(2, <<"Error: Missing option '--user'.">>, {}, store)
    ELSE IF argv.title = None
    THEN Exit(2, <<"Error: Missing argument 'TITLE'.">>, {}, store)
    ELSE IF ~validate_user_id(argv.user[1]).ok
    THEN Exit(1, <<"Error: ", validate_user_id(argv.user[1]).error>>, {}, store)
    ELSE IF ~validate_title(argv.title[1]).ok
    THEN Exit(1, <<"Error: ", validate_title(argv.title[1]).error>>, {}, store)
    ELSE IF init_fails
    THEN Exit(1, <<"Unexpected error: ", "Failed to initialize database: ", DbErrorText>>,
              {"init_db"}, store)
    ELSE IF TaskService_create_task(store, clock, argv.user[1], argv.title[1],
                                    commit_fails).raised = "ValidationError"
    THEN Exit(1, <<"Error: ", "ValidationError">>, {"init_db", "create_task"},
              TaskService_create_task(store, clock, argv.user[1], argv.title[1],
                                      commit_fails).store)
    ELSE IF TaskService_create_task(store, clock, argv.user[1], argv.title[1],
                                    commit_fails).raised = "DatabaseUnavailableError"
    THEN Exit(1, <<"Unexpected error: ", "Failed to create task: ", DbErrorText>>,
              {"init_db", "create_task"},
              TaskService_create_task(store, clock, argv.user[1], argv.title[1],
                                      commit_fails).store)
    ELSE Exit(0, <<"Task created">>, {"init_db", "create_task"},
              TaskService_create_task(store, clock, argv.user[1], argv.title[1],
                                      commit_fails).store)

\* command lines: --user absent, empty, blank or a name; TITLE absent, empty, of
\* accepted length, or too long
AddUsers == {None, Some(<<>>), Some(<<" ", " ">>), Some(<<"a">>), Some(<<"b">>)}
AddTitles == {None, Some(Title(0)), Some(Title(1)), Some(Title(MAX_TITLE_LENGTH)),
              Some(Title(MAX_TITLE_LENGTH + 1))}

\* the command line passes validation
AddValid(argv) ==
    /\ argv.user # None /\ argv.title # None
    /\ Strip(argv.user[1]) # <<>>
    /\ Len(argv.title[1]) >= 1 /\ Len(argv.title[1]) <= 200

AddTick ==
    /\ layer = "add"
    /\ now < MaxTime
    /\ now' = now + 1
    /\ UNCHANGED <<users, calls, layer, served, conversations, messages, sessions, tasks, nextId, last, writes, cliTasks, held, hist>>

CliAdd ==
    /\ layer = "add"
    /\ \E user \in AddUsers, title \in AddTitles, init_fails \in BOOLEAN,
          commit_fails \in BOOLEAN :
         \E r \in {cli_add(cliTasks, now, [user |-> user, title |-> title],
                           init_fails, commit_fails)} :
             /\ cliTasks' = r.store
             /\ writes' = IF r.store # cliTasks THEN writes + 1 ELSE writes
             /\ last' = [op |-> "add", ok |-> r.exit_code = 0,
                         kind |-> IF user = None \/ title = None THEN "usage"
                                  ELSE IF ~AddValid([user |-> user, title |-> title])
                                  THEN "invalid"
                                  ELSE IF init_fails \/ commit_fails THEN "database down"
                                  ELSE "valid",
                         exit_code |-> r.exit_code, message |-> r.message,
                         reached |-> r.reached, same |-> r.store = cliTasks]
    /\ writes' <= MaxWrites
    /\ UNCHANGED <<users, calls, layer, served, conversations, messages, sessions, now, tasks, nextId, held, hist>>

InitAdd ==
    /\ layer = "add"
    /\ now = 0
    /\ tasks = {}
    /\ nextId = 1
    /\ last = NoLast
    /\ writes = 0
    /\ cliTasks = {}
    /\ held = None
    /\ hist = <<>>
    /\ users = {}
    /\ calls = NoCalls
    /\ served = NoneServed
    /\ conversations = {}
    /\ messages = {}
    /\ sessions = NoSessions

NextAdd ==
    \/ AddTick
    \/ CliAdd

SpecAdd == InitAdd /\ [][NextAdd]_vars

-----------------------------------------------------------------------------
(* Properties *)

\* C1: for every stored task t and every user B other than its owner, get_task,
\* update_task, toggle_task_completed and delete_task called by B with t's id
\* return None / False and leave the store (t and all its fields) as it is; the
\* same calls by the owner succeed on t.  It holds in every store the service
\* calls can reach, and of the call last made.
C1_Isolation ==
    layer = "service" =>
      /\ \A t \in tasks :
           /\ \A B \in Users \ {t.user_id} :
                /\ get_task(tasks, B, t.id) = None
                /\ \A b \in UpdateBodies :
                     update_task(tasks, now, B, t.id, b.title, b.description, b.completed)
                       = [store |-> tasks, result |-> None]
                /\ toggle_task_completed(tasks, now, B, t.id)
                       = [store |-> tasks, result |-> None]
                /\ delete_task(tasks, B, t.id) = [store |-> tasks, result |-> FALSE]
           /\ get_task(tasks, t.user_id, t.id) = Some(t)
           /\ \A b \in UpdateBodies :
                update_task(tasks, now, t.user_id, t.id, b.title, b.description,
                            b.completed).result # None
           /\ toggle_task_completed(tasks, now, t.user_id, t.id).result # None
           /\ delete_task(tasks, t.user_id, t.id).result = TRUE
      /\ last.kind = "foreign" => ~last.ok
      /\ last.kind = "own" => last.ok

\* a task of one user is stored and the other user's update of it has just failed
C1_Witness ==
    /\ layer = "service"
    /\ last.op = "update_task" /\ last.kind = "foreign" /\ ~last.ok
    /\ tasks # {}

\* rows are exactly the rows of store owned by user_id
ExactlyOwned(rows, store, user_id) ==
    /\ \A t \in rows : t \in store /\ t.user_id = user_id
    /\ \A t \in store : t.user_id = user_id => t \in rows

\* C4: in every reachable store, get_all_tasks(user) of the web service and
\* get_tasks_for_user(user) of the CLI service return all tasks owned by user and
\* no task of another owner (nothing when the user owns none).
C4_ListingExact ==
    /\ layer = "service" =>
         /\ \A u \in Users : ExactlyOwned(get_all_tasks(tasks, u), tasks, u)
         /\ last.op = "get_all_tasks" => ExactlyOwned(last.rows, tasks, last.caller)
    /\ layer = "cli" =>
         /\ \A u \in CliUserIds :
              ExactlyOwned(TaskService_get_tasks_for_user(cliTasks, u), cliTasks, u)
         /\ last.op = "TaskService.get_tasks_for_user" =>
              ExactlyOwned(last.rows, cliTasks, last.caller)

\* a listing has just returned the caller's task while another user's task is stored
C4_Witness ==
    /\ last.op \in {"get_all_tasks", "TaskService.get_tasks_for_user"}
    /\ last.rows # {}
    /\ \E t \in tasks \cup cliTasks : t.user_id # last.caller

\* C5: a token issued for user X decodes to X as long as it has not expired
\* (whatever X, the email and the time of issue), so tokens issued for two
\* different users never decode to the same id.
C5_TokenRoundTrip ==
    /\ \A X \in IssuedUids, t \in {now - JWT_EXPIRATION_DAYS, now} :
         get_user_id_from_token(create_access_token(X, "alice@example.com", t), now)
           = Some(X)
    /\ held # None =>
         \A Y \in IssuedUids \ {held[1].user_id} :
           get_user_id_from_token(create_access_token(Y, "bob@example.com", now), now)
             # get_user_id_from_token(held[1].token, now)
    /\ (last.op = "get_user_id_from_token" /\ last.kind = "issued"
          /\ last.at <= held[1].issued_at + JWT_EXPIRATION_DAYS)
         => last.result = Some(held[1].user_id)

\* a token issued some days ago for a user with a two-digit id has just been decoded
C5_Witness ==
    /\ last.op = "get_user_id_from_token" /\ last.kind = "issued"
    /\ held # None /\ held[1].user_id >= 10 /\ held[1].issued_at < last.at
    /\ last.result = Some(held[1].user_id)

\* C6 (the two functions): every bad token decodes to no user id, and the
\* malformed, empty, wrongly signed and expired ones to no payload.
C6_DecodeFailsClosed ==
    /\ \A bad \in BadTokens(now) :
         /\ get_user_id_from_token(bad.token, now) = None
         /\ bad.class \in {"empty", "malformed", "unsigned", "other secret", "expired"}
              => decode_access_token(bad.token, now) = None
    /\ (last.op = "get_user_id_from_token" /\ last.kind # "issued") => last.result = None
    /\ (last.op = "get_user_id_from_token" /\ last.kind = "issued"
          /\ last.at > held[1].issued_at + JWT_EXPIRATION_DAYS)
         => last.result = None /\ last.payload = None

\* P holds of the answer of every task endpoint to a request with this header
\* and this {user_id}, whatever task id and body it names
EveryEndpoint(P(_), store, seq, clock, authorization, user_id) ==
    /\ P(route_get_tasks(store, seq, clock, authorization, user_id))
    /\ \A b \in HttpCreateBodies :
         P(route_create_task(store, seq, clock, authorization, user_id, b))
    /\ \A id \in TaskIds :
         /\ P(route_get_task(store, seq, clock, authorization, user_id, id))
         /\ P(route_toggle_task(store, seq, clock, authorization, user_id, id))
         /\ P(route_delete_task(store, seq, clock, authorization, user_id, id))
         /\ \A b \in HttpUpdateBodies :
              P(route_update_task(store, seq, clock, authorization, user_id, id, b))

\* two answers a client cannot tell apart, with the same tables behind them
SameAnswer(a, b) ==
    /\ a.status = b.status
    /\ a.detail = b.detail
    /\ a.body = b.body
    /\ a.store = b.store
    /\ a.seq = b.seq

\* the 404 of a task that is not there, nothing changed
NotFound(r, store, seq) ==
    /\ r.status = 404
    /\ r.detail = "Task not found"
    /\ r.body = None
    /\ r.store = store
    /\ r.seq = seq

\* C2: for a caller B using B's own URL, get, patch, toggle and delete on a task
\* id owned by another user give the same answer and the same resulting store as
\* the same request on a task id that does not exist: 404 "Task not found", no
\* body, store unchanged (422 for both when the patch body is invalid).
C2_ForeignLooksMissing ==
    layer = "http" =>
      /\ \A B \in Users :
           \A f \in {t.id : t \in {x \in tasks : x.user_id # B}} :
             \A m \in {i \in TaskIds : \A t \in tasks : t.id # i} :
               /\ SameAnswer(route_get_task(tasks, nextId, now, BearerOf(B, now), B, f),
                             route_get_task(tasks, nextId, now, BearerOf(B, now), B, m))
               /\ NotFound(route_get_task(tasks, nextId, now, BearerOf(B, now), B, f),
                           tasks, nextId)
               /\ SameAnswer(route_toggle_task(tasks, nextId, now, BearerOf(B, now), B, f),
                             route_toggle_task(tasks, nextId, now, BearerOf(B, now), B, m))
               /\ NotFound(route_toggle_task(tasks, nextId, now, BearerOf(B, now), B, f),
                           tasks, nextId)
               /\ SameAnswer(route_delete_task(tasks, nextId, now, BearerOf(B, now), B, f),
                             route_delete_task(tasks, nextId, now, BearerOf(B, now), B, m))
               /\ NotFound(route_delete_task(tasks, nextId, now, BearerOf(B, now), B, f),
                           tasks, nextId)
               /\ \A b \in HttpUpdateBodies :
                    /\ SameAnswer(
                         route_update_task(tasks, nextId, now, BearerOf(B, now), B, f, b),
                         route_update_task(tasks, nextId, now, BearerOf(B, now), B, m, b))
                    /\ UpdateTaskRequest(b).ok =>
                         NotFound(
                           route_update_task(tasks, nextId, now, BearerOf(B, now), B, f, b),
                           tasks, nextId)
      /\ (last.op \in {"get_task", "update_task", "toggle_task", "delete_task"}
            /\ last.cred = "own" /\ last.kind \in {"foreign", "missing"}
            /\ last.status # 422)
           => last.status = 404 /\ last.detail = "Task not found" /\ last.same

\* a caller has just been answered 404 on toggling a task that another user owns
C2_Witness ==
    /\ layer = "http"
    /\ last.op = "toggle_task" /\ last.cred = "own" /\ last.kind = "foreign"
    /\ last.status = 404
    /\ tasks # {}

\* 403 "Cannot access another user's tasks", raised before the handler: no service
\* function ran, no task data in the answer, tables as they were
ForbiddenUntouched(r, store, seq) ==
    /\ r.status = 403
    /\ r.detail = "Cannot access another user's tasks"
    /\ r.svc = "none"
    /\ r.body = None
    /\ r.store = store
    /\ r.seq = seq

\* C3: every task endpoint (list, create, get, patch, toggle, delete), called with
\* a valid token of user A on the URL of another user U, answers 403 "Cannot
\* access another user's tasks" without running a service function: nothing is
\* created, changed, deleted or returned.
C3_ForbiddenBeforeService ==
    layer = "http" =>
      /\ \A U \in Users : \A A \in Users \ {U} :
           \A t \in {now, now - JWT_EXPIRATION_DAYS} :
             LET P(r) == ForbiddenUntouched(r, tasks, nextId)
             IN  EveryEndpoint(P, tasks, nextId, now, BearerOf(A, t), U)
      /\ (last.op # "none" /\ last.cred = "other") =>
           /\ last.status = 403
           /\ last.detail = "Cannot access another user's tasks"
           /\ last.svc = "none"
           /\ last.same

\* a valid token of one user has just been refused the deletion of a stored task
\* through the URL of the task's owner
C3_Witness ==
    /\ layer = "http"
    /\ last.op = "delete_task" /\ last.cred = "other" /\ last.kind = "own"
    /\ last.status = 403
    /\ tasks # {}

\* 401 "Invalid authentication credentials" with nothing read or changed
UnauthorizedUntouched(r, store, seq) ==
    /\ r.status = 401
    /\ r.detail = "Invalid authentication credentials"
    /\ r.svc = "none"
    /\ r.body = None
    /\ r.store = store
    /\ r.seq = seq

\* C6: a token that is malformed, empty, not signed with the service secret,
\* expired, or whose subject is missing or not an integer decodes to None, and
\* every task endpoint answers a request bearing it with 401 "Invalid
\* authentication credentials" without reading or changing any task.
C6_FailsClosedWith401 ==
    /\ C6_DecodeFailsClosed
    /\ layer = "http" =>
         /\ \A bad \in BadTokens(now) : \A U \in Users :
              LET P(r) == UnauthorizedUntouched(r, tasks, nextId)
              IN  EveryEndpoint(P, tasks, nextId, now, Header("Bearer", bad.token), U)
         /\ (last.op # "none" /\ last.cred \in {"empty", "invalid"}) =>
              /\ last.status = 401
              /\ last.detail = "Invalid authentication credentials"
              /\ last.svc = "none"
              /\ last.same

\* C7: a request to a task endpoint with no Authorization header is answered 401,
\* as one with an invalid or expired token is, and not the 403 that a valid token
\* of another user gets.
C7_MissingCredentialIs401 ==
    layer = "http" =>
      /\ \A U \in Users :
           LET P(r) == r.status = 401 /\ r.svc = "none" /\ r.store = tasks
           IN  EveryEndpoint(P, tasks, nextId, now, NoHeader, U)
      /\ (last.op # "none" /\ last.cred = "absent") => last.status = 401

\* the row a toggle at clock reading at makes of row before
Toggled(before, at) == [before EXCEPT !.completed = ~@, !.updated_at = at]

\* two successive toggles of one task undo each other's change of completed and
\* each stamps updated_at with the clock reading of its call
TwiceRestores(first, second) ==
    /\ second.before = first.after
    /\ second.after.completed = first.before.completed
    /\ first.after.updated_at = first.at
    /\ second.after.updated_at = second.at
    /\ first.at <= second.at

\* C8 (as the spec states it): two successive toggles by the owner return the task
\* to its original completed value and produce two distinct updated_at values.
C8_TwiceDistinctStamps ==
    layer = "toggle" =>
      \A i \in 1..(Len(hist) - 1) :
        /\ TwiceRestores(hist[i], hist[i + 1])
        /\ hist[i].after.updated_at # hist[i + 1].after.updated_at

\* C8 (amended): two successive toggles by the owner return the task to its
\* original completed value; each call sets updated_at to the clock reading of
\* that call, so the two values are distinct exactly when the clock advanced
\* between the calls, and equal when both calls read the same time.
C8_TwiceRestoresStampsByClock ==
    layer = "toggle" =>
      \A i \in 1..(Len(hist) - 1) :
        /\ TwiceRestores(hist[i], hist[i + 1])
        /\ (hist[i].after.updated_at # hist[i + 1].after.updated_at)
             <=> (hist[i].at < hist[i + 1].at)

\* a task created completed = False was toggled twice with the clock advancing
\* in between: it is not completed again and the two stamps differ
C8_Witness ==
    /\ layer = "toggle"
    /\ Len(hist) >= 2
    /\ hist[1].at < hist[2].at
    /\ hist[2].after.completed = hist[1].before.completed
    /\ hist[1].after.updated_at # hist[2].after.updated_at

\* C9: a successful toggle by the owner negates completed, sets updated_at to the
\* current time and leaves id, owner, title, description and created_at (and every
\* other row) as they were; after n successive toggles the flag differs from the
\* original iff n is odd.  The toggle route answers 200 with the toggled task.
C9_ToggleNegates ==
    layer = "toggle" =>
      /\ \A t \in tasks :
           /\ toggle_task_completed(tasks, now, t.user_id, t.id)
                = [store |-> (tasks \ {t}) \cup {Toggled(t, now)},
                   result |-> Some(Toggled(t, now))]
           /\ Toggled(t, now).completed = ~t.completed
           /\ \E r \in {route_toggle_task(tasks, nextId, now, BearerOf(t.user_id, now),
                                          t.user_id, t.id)} :
                /\ r.status = 200
                /\ r.body = Some(TaskResponse_from_task(Toggled(t, now)))
                /\ r.store = (tasks \ {t}) \cup {Toggled(t, now)}
      /\ \A i \in 1..Len(hist) :
           /\ hist[i].after = Toggled(hist[i].before, hist[i].at)
           /\ hist[i].after.completed # hist[i].before.completed
           /\ i > 1 => hist[i].before = hist[i - 1].after
           /\ (hist[i].after.completed # hist[1].before.completed) <=> (i % 2 = 1)
      /\ hist # <<>> => hist[Len(hist)].after \in tasks

\* a task that was completed has been toggled three times in a row, the clock
\* advancing meanwhile: it is now not completed
C9_Witness ==
    /\ layer = "toggle"
    /\ Len(hist) >= 3
    /\ hist[1].before.completed
    /\ ~hist[3].after.completed
    /\ hist[1].at < hist[3].at

\* a title of n characters is accepted
Accepted(n) == 1 <= n /\ n <= 200

\* C10: a title is accepted iff its length is in [1, 200] (0 and 201 rejected, 1
\* and 200 accepted) by validate_title of the CLI, by the Phase I Task model, by
\* the create request of the web API (422 otherwise, nothing stored) and by the
\* patch request when a title is supplied.
C10_TitleLengthInterval ==
    layer = "title" =>
      /\ \A n \in 0..(MAX_TITLE_LENGTH + 1) :
           /\ validate_title(Title(n)).ok <=> Accepted(n)
           /\ Task_validate_title(Title(n)).ok <=> Accepted(n)
           /\ Task_new(now, <<"a">>, Title(n)).ok <=> Accepted(n)
           /\ CreateTaskRequest([title |-> Title(n), description |-> None]).ok
                <=> Accepted(n)
           /\ UpdateTaskRequest([title |-> Some(Title(n)), description |-> None,
                                 completed |-> None]).ok <=> Accepted(n)
      /\ UpdateTaskRequest([title |-> None, description |-> None, completed |-> None]).ok
      /\ last.op # "none" => (last.ok <=> Accepted(last.len))
      /\ (last.op = "create_task" /\ ~last.ok) => last.status = 422
      /\ (last.op = "update_task" /\ ~last.ok) => last.status = 422
      /\ \A t \in tasks \cup cliTasks : Accepted(Len(t.title))

\* a title of 200 characters is stored and one of 201 has just been refused by
\* POST with 422
C10_Witness ==
    /\ layer = "title"
    /\ last.op = "create_task" /\ last.len = MAX_TITLE_LENGTH + 1 /\ last.status = 422
    /\ \E t \in tasks : Len(t.title) = MAX_TITLE_LENGTH

\* bodies of POST /{user_id}/tasks that pass validation, some naming an owner of
\* their own (a field CreateTaskRequest does not have)
RoundTripBodies ==
    { [title |-> Title(1), description |-> None, user_id |-> 0],
      [title |-> Title(2), description |-> Some("milk"), user_id |-> 0],
      [title |-> Title(MAX_TITLE_LENGTH), description |-> Some("eggs"), user_id |-> 0] }
    \cup { [title |-> Title(1), description |-> Some("milk"), user_id |-> v] : v \in Users }

\* the answer to GET of the task that a POST answered with
FetchCreated(c, clock, authorization, user_id) ==
    route_get_task(c.store, c.seq, clock, authorization, user_id, c.body[1].id)

\* C11: for every caller U and every valid body, POST by U followed at once by GET
\* of the returned id by U answers 200 with the task of the create response (same
\* id and timestamps): title and description as supplied, completed = False, owner
\* U (the token subject, whatever owner the body names).
C11_CreateFetchRoundTrip ==
    layer = "http" =>
      /\ \A U \in Users : \A b \in RoundTripBodies :
           \E c \in {route_create_task(tasks, nextId, now, BearerOf(U, now), U, b)} :
             /\ c.status = 201
             /\ c.body[1].title = b.title
             /\ c.body[1].description = b.description
             /\ c.body[1].completed = FALSE
             /\ c.body[1].user_id = U
             /\ c.body[1].id = nextId
             /\ \E g \in {FetchCreated(c, now, BearerOf(U, now), U)} :
                  /\ g.status = 200
                  /\ g.body = c.body
                  /\ g.store = c.store
      /\ (last.op = "create_task" /\ last.status = 201) =>
           \E t \in tasks : t.id = nextId - 1 /\ ~t.completed /\ t.created_at = now

\* a task has just been fetched by its owner, by the id its creation returned
C11_Witness ==
    /\ layer = "http"
    /\ last.op = "get_task" /\ last.cred = "own" /\ last.kind = "own"
    /\ last.status = 200
    /\ \E t \in tasks : t.description = Some("milk")

C13_AddExitCodes ==
    layer = "add" =>
      /\ \A user \in AddUsers, title \in AddTitles, init_fails \in BOOLEAN :
           \E r \in {cli_add(cliTasks, now, [user |-> user, title |-> title],
                             init_fails, FALSE)} :
             /\ user = None => r.exit_code = 2
             /\ (user # None /\ title # None
                   /\ ~AddValid([user |-> user, title |-> title])) => r.exit_code = 1
             /\ (AddValid([user |-> user, title |-> title]) /\ ~init_fails) =>
                  /\ r.exit_code = 0
                  /\ \E t \in r.store \ cliTasks :
                       t.user_id = user[1] /\ t.title = title[1]
             /\ r.exit_code = 0 => r.store # cliTasks
      /\ last.op = "add" =>
           /\ last.kind = "usage" => last.exit_code = 2
           /\ last.kind = "invalid" => last.exit_code = 1
           /\ last.kind = "valid" => last.exit_code = 0 /\ ~last.same
           /\ last.exit_code \in {0, 1, 2}

\* an add with a blank user id has just exited 1 while a task is stored
C13_Witness ==
    /\ layer = "add"
    /\ last.op = "add" /\ last.kind = "invalid" /\ last.exit_code = 1
    /\ last.message = <<"Error: ", "User ID cannot be empty">>
    /\ cliTasks # {}

\* C14: an add that fails validation leaves the stored tasks as they were, and it
\* fails before the database is initialised and before create_task is called
\* (whether or not the database could be reached).
C14_InvalidAddChangesNothing ==
    layer = "add" =>
      /\ \A user \in AddUsers \ {None}, title \in AddTitles \ {None} :
           \A init_fails \in BOOLEAN, commit_fails \in BOOLEAN :
             ~AddValid([user |-> user, title |-> title]) =>
               \E r \in {cli_add(cliTasks, now, [user |-> user, title |-> title],
                                 init_fails, commit_fails)} :
                 /\ r.exit_code = 1
                 /\ r.store = cliTasks
                 /\ r.reached = {}
                 /\ r.message[1] = "Error: "
      /\ (last.op = "add" /\ last.kind = "invalid") =>
           last.same /\ last.reached = {} /\ last.exit_code = 1

\* an add with a title of 201 characters has just exited 1 with a task in the store
C14_Witness ==
    /\ layer = "add"
    /\ last.op = "add" /\ last.kind = "invalid" /\ last.exit_code = 1
    /\ last.message = <<"Error: ", "Title must be 1-200 characters">>
    /\ last.same
    /\ cliTasks # {}

C16_UnexpectedFailureMasked ==
    (layer = "add" /\ last.op = "add" /\ last.kind = "database down") =>
      \A i \in 1..Len(last.message) : last.message[i] # DbErrorText

-----------------------------------------------------------------------------
(* backend/src/routes/auth.py, backend/src/models/user.py: accounts *)

MIN_PASSWORD_LENGTH == 8
MAX_NAME_LENGTH == 100
BCRYPT_SECRET_SIZE == 72

\* EmailStr: the address parses
EmailStr(email) == email \in Emails

\* SignupRequest: email, name of 1..100 characters, password of at least 8
SignupRequest(body) ==
    /\ EmailStr(body.email)
    /\ Len(body.name) >= 1 /\ Len(body.name) <= MAX_NAME_LENGTH
    /\ Len(body.password) >= MIN_PASSWORD_LENGTH

\* SigninRequest: email and any password
SigninRequest(body) == EmailStr(body.email)

\* the part of a secret bcrypt works on: passlib's bcrypt handler silently drops
\* what follows the first 72 bytes (truncate_error is off unless configured)
bcrypt_secret(password) ==
    IF Len(password) > BCRYPT_SECRET_SIZE THEN SubSeq(password, 1, BCRYPT_SECRET_SIZE)
    ELSE password

\* pwd_context.hash: a fresh salt and the digest of the secret under it
hash_password(password, salt) == [salt |-> salt, digest |-> bcrypt_secret(password)]

\* pwd_context.verify: the digest of the plain secret under the hash's salt is
\* the hash's digest
verify_password(plain_password, hashed_password) ==
    bcrypt_secret(plain_password) = hashed_password.digest

\* select(User).where(User.email == request.email)
select_user(store, email) == {u \in store : u.email = email}

AuthResponse(user, clock) ==
    [user_id |-> user.id, email |-> user.email, name |-> user.name,
     token |-> create_access_token(user.id, user.email, clock)]

\* what an auth endpoint answers, and the user table after it
Answer(status, detail, body, store) ==
    [status |-> status, detail |-> detail, body |-> body, store |-> store]

signup_select_no_check(store, request) ==
    IF ~SignupRequest(request)
    THEN Some(Answer(422, "validation error", None, store))
    ELSE None

\* signup up to the result of its select: the answer when it ends there, None
\* when it goes on to hash the password and insert
signup_select(store, request) ==
    IF ~SignupRequest(request)
    THEN Some(Answer(422, "validation error", None, store))
    ELSE IF select_user(store, request.email) # {}
    THEN Some(Answer(400, "Email already registered", None, store))
    ELSE None

\* signup from session.add(user) on. The column email is unique: the commit of
\* a second row with the same email raises IntegrityError, which signup does not
\* catch, so global_exception_handler answers 500
signup_commit(store, clock, request, salt) ==
    IF select_user(store, request.email) # {}
    THEN Answer(500, "An unexpected error occurred. Please try again later.", None, store)
    ELSE LET user == [id |-> Cardinality(store) + 1, email |-> request.email,
                      name |-> request.name,
                      password_hash |-> hash_password(request.password, salt),
                      created_at |-> clock, updated_at |-> clock]
         IN  Answer(201, "", Some(AuthResponse(user, clock)), store \cup {user})

signin(store, clock, request) ==
    IF ~SigninRequest(request)
    THEN Answer(422, "validation error", None, store)
    ELSE IF select_user(store, request.email) = {}
    THEN Answer(401, "Invalid email or password", None, store)
    ELSE LET user == CHOOSE u \in select_user(store, request.email) : TRUE
         IN  IF ~verify_password(request.password, user.password_hash)
             THEN Answer(401, "Invalid email or password", None, store)
             ELSE Answer(200, "", Some(AuthResponse(user, clock)), store)

-----------------------------------------------------------------------------
(* Accounts layer: signup and signin requests, two in flight at a time *)

\* a password of n characters ending in c
Pw(n, c) == [i \in 1..n |-> IF i = n THEN c ELSE "p"]

AccountEmails == Emails \cup {"not-an-email"}
Passwords == {Pw(MIN_PASSWORD_LENGTH - 1, "x"), Pw(MIN_PASSWORD_LENGTH, "x"),
              Pw(BCRYPT_SECRET_SIZE + 1, "x"), Pw(BCRYPT_SECRET_SIZE + 1, "y")}
Salts == {1, 2}

\* signup bodies: accepted ones, and one for each way validation refuses
SignupBodies ==
    { [email |-> "alice@example.com", name |-> <<"A">>, password |-> Pw(MIN_PASSWORD_LENGTH, "x")],
      [email |-> "alice@example.com", name |-> <<"B">>, password |-> Pw(BCRYPT_SECRET_SIZE + 1, "x")],
      [email |-> "bob@example.com", name |-> <<"B">>, password |-> Pw(BCRYPT_SECRET_SIZE + 1, "y")],
      [email |-> "not-an-email", name |-> <<"A">>, password |-> Pw(MIN_PASSWORD_LENGTH, "x")],
      [email |-> "bob@example.com", name |-> <<>>, password |-> Pw(MIN_PASSWORD_LENGTH, "x")],
      [email |-> "bob@example.com", name |-> <<"B">>, password |-> Pw(MIN_PASSWORD_LENGTH - 1, "x")] }

\* the answer to a request, as the client and the table see it
Answered_auth(op, request, kind, r, store) ==
    [op |-> op, kind |-> kind, ok |-> r.status < 400,
     email |-> request.email, status |-> r.status, detail |-> r.detail,
     body |-> r.body, same |-> r.store = store]

\* POST /api/auth/signup up to the await of the select
SignupSelect(p) ==
    /\ layer = "accounts"
    /\ calls[p].pc = "idle"
    /\ \E request \in SignupBodies :
         \E r \in {signup_select(users, request)} :
           IF r = None
           THEN /\ calls' = [calls EXCEPT ![p] = [pc |-> "selected",
                                                  email |-> request.email,
                                                  name |-> request.name,
                                                  password |-> request.password]]
                /\ UNCHANGED <<users, last>>
           ELSE /\ users' = r[1].store
                /\ last' = Answered_auth("signup", request,
                                         IF ~SignupRequest(request) THEN "invalid"
                                         ELSE "taken", r[1], users)
                /\ UNCHANGED calls
    /\ UNCHANGED <<layer, served, conversations, messages, sessions, now, tasks, nextId, writes, cliTasks, held, hist>>

\* the same request from the await of the commit to its answer
SignupCommit(p) ==
    /\ layer = "accounts"
    /\ calls[p].pc = "selected"
    /\ \E salt \in Salts :
         \E request \in {[email |-> calls[p].email, name |-> calls[p].name,
                          password |-> calls[p].password]} :
           \E r \in {signup_commit(users, now, request, salt)} :
             /\ users' = r.store
             /\ last' = Answered_auth("signup", request,
                                      IF select_user(users, request.email) # {}
                                      THEN "taken meanwhile" ELSE "free", r, users)
             /\ hist' = IF r.status = 201
                        THEN Append(hist, [user_id |-> r.body[1].user_id,
                                           email |-> request.email, name |-> request.name,
                                           password |-> request.password])
                        ELSE hist
    /\ calls' = [calls EXCEPT ![p] = Idle]
    /\ UNCHANGED <<layer, served, conversations, messages, sessions, now, tasks, nextId, writes, cliTasks, held>>

\* POST /api/auth/signin
Signin ==
    /\ layer = "accounts"
    /\ \E email \in AccountEmails, password \in Passwords :
         \E request \in {[email |-> email, password |-> password]} :
           \E r \in {signin(users, now, request)} :
             /\ users' = r.store
             /\ last' = Answered_auth("signin", request,
                                      IF ~SigninRequest(request) THEN "invalid"
                                      ELSE IF select_user(users, email) = {} THEN "unknown"
                                      ELSE "known", r, users)
    /\ UNCHANGED <<layer, served, conversations, messages, sessions, now, tasks, nextId, writes, cliTasks, held, hist, calls>>

InitAccounts ==
    /\ layer = "accounts"
    /\ now = 0
    /\ tasks = {}
    /\ nextId = 1
    /\ last = NoLast
    /\ writes = 0
    /\ cliTasks = {}
    /\ held = None
    /\ hist = <<>>
    /\ users = {}
    /\ calls = NoCalls
    /\ served = NoneServed
    /\ conversations = {}
    /\ messages = {}
    /\ sessions = NoSessions

NextAccounts ==
    \/ \E p \in Procs : SignupSelect(p)
    \/ \E p \in Procs : SignupCommit(p)
    \/ Signin

SpecAccounts == InitAccounts /\ [][NextAccounts]_vars

\* C17: signup with an email that already has an account is answered 400
\* 'Email already registered': the user table stays as it was (no account made
\* or changed, the account's password hash included) and no token is returned.
C17_DuplicateSignupRejected ==
    layer = "accounts" =>
      /\ \A request \in SignupBodies :
           (SignupRequest(request) /\ select_user(users, request.email) # {}) =>
             \E r \in {signup_select(users, request)} :
               /\ r # None
               /\ r[1].status = 400 /\ r[1].detail = "Email already registered"
               /\ r[1].body = None
               /\ r[1].store = users
      /\ (last.op = "signup" /\ last.kind = "taken") =>
           /\ last.status = 400 /\ last.detail = "Email already registered"
           /\ last.body = None
           /\ last.same

\* a signup has just been refused for an email whose account has another name
C17_Witness ==
    /\ layer = "accounts"
    /\ last.op = "signup" /\ last.kind = "taken" /\ last.status = 400
    /\ \E u \in users : u.email = last.email /\ u.name = <<"A">>
    /\ \E request \in SignupBodies :
         /\ request.email = last.email /\ request.name = <<"B">>
         /\ signup_select(users, request) # None

\* C18: no two accounts share an email, and of two signups with the same email
\* in flight together one makes the account and the other is answered 400
\* 'Email already registered'.
C18_UniqueEmailAndLoser400 ==
    layer = "accounts" =>
      /\ \A u, v \in users : u.email = v.email => u = v
      /\ (last.op = "signup" /\ last.kind = "taken meanwhile") =>
           (last.status = 400 /\ last.detail = "Email already registered")

\* C19: after a signup, signin with the same email succeeds exactly with the
\* password of the signup; a success returns the account's id, email and name and
\* a token whose subject is that id, which passes for /api/{id}/... and no other.
C19_SigninExactlyWithPassword ==
    layer = "accounts" =>
      /\ \A i \in 1..Len(hist), p \in Passwords :
           \E r \in {signin(users, now, [email |-> hist[i].email, password |-> p])} :
             /\ (r.status = 200) <=> (p = hist[i].password)
             /\ r.status = 200 =>
                  /\ r.body[1].user_id = hist[i].user_id
                  /\ r.body[1].email = hist[i].email
                  /\ r.body[1].name = hist[i].name
                  /\ get_user_id_from_token(r.body[1].token, now) = Some(hist[i].user_id)
                  /\ \A user_id \in 0..(Len(hist) + 1) :
                       verify_user_access(user_id, Header("Bearer", r.body[1].token), now).ok
                         <=> (user_id = hist[i].user_id)
      /\ (last.op = "signup" /\ last.status = 201) =>
           /\ \E u \in users : /\ u.id = last.body[1].user_id
                               /\ u.email = last.body[1].email /\ u.email = last.email
                               /\ u.name = last.body[1].name
           /\ get_user_id_from_token(last.body[1].token, now) = Some(last.body[1].user_id)

\* C20: signin with an email that has no account and signin with an account's
\* email and a password that is not the account's are answered alike, 401
\* 'Invalid email or password' without a token, and the user table is unchanged.
C20_SigninHidesRegistration ==
    layer = "accounts" =>
      \A i \in 1..Len(hist), unknown \in Emails, p \in Passwords, q \in Passwords :
        (select_user(users, unknown) = {} /\ p # hist[i].password) =>
          \E r \in {signin(users, now, [email |-> hist[i].email, password |-> p])} :
            \E n \in {signin(users, now, [email |-> unknown, password |-> q])} :
              /\ r.status = 401 /\ r.detail = "Invalid email or password"
              /\ r.body = None /\ r.store = users
              /\ n.status = r.status /\ n.detail = r.detail /\ n.body = r.body
              /\ n.store = users

\* a task id the sequence has handed out and no stored task carries: deleted
Gone(id) == id < nextId /\ \A t \in tasks : t.id # id

\* to its owner and to anyone else, the id is not found and no call changes a task
NotFoundFor(id) ==
    \A u \in Users :
      /\ get_task(tasks, u, id) = None
      /\ id \notin {t.id : t \in get_all_tasks(tasks, u)}
      /\ \A b \in UpdateBodies :
           update_task(tasks, now, u, id, b.title, b.description, b.completed)
             = [store |-> tasks, result |-> None]
      /\ toggle_task_completed(tasks, now, u, id) = [store |-> tasks, result |-> None]
      /\ delete_task(tasks, u, id) = [store |-> tasks, result |-> FALSE]
      /\ \A r \in {route_get_task(tasks, nextId, now, BearerOf(u, now), u, id),
                    route_toggle_task(tasks, nextId, now, BearerOf(u, now), u, id),
                    route_delete_task(tasks, nextId, now, BearerOf(u, now), u, id)} \cup
                   {route_update_task(tasks, nextId, now, BearerOf(u, now), u, id, b) :
                      b \in {c \in UpdateBodies : UpdateTaskRequest(c).ok}} :
           r.status = 404 /\ r.detail = "Task not found" /\ r.store = tasks

\* C22: a successful delete_task removes that task and no other; from then on the
\* id stays deleted, get, update, toggle and delete of it give not-found and it is
\* in no list; delete of an id that does not exist returns False and changes nothing.
C22_DeletedStaysDeleted ==
    /\ [](layer = "service" =>
            \A id \in TaskIds : (Gone(id) \/ id >= nextId) => NotFoundFor(id))
    /\ [][ layer = "service" =>
             /\ \A id \in TaskIds : Gone(id) => Gone(id)'
             /\ (last'.op = "delete_task" /\ last'.ok /\ writes' = writes + 1) =>
                  \E t \in tasks : tasks' = tasks \ {t} /\ Gone(t.id)'
             /\ (last'.op = "delete_task" /\ ~last'.ok) => tasks' = tasks ]_vars

\* a task has been deleted, another one is still stored, and a later call named
\* the deleted id
C22_Witness ==
    /\ layer = "service"
    /\ tasks # {}
    /\ \E id \in TaskIds : Gone(id)
    /\ last.op \in {"get_task", "update_task", "toggle_task_completed", "delete_task"}
    /\ last.kind = "missing" /\ ~last.ok

\* C23: update_task by the owner sets the supplied fields to the supplied values
\* and updated_at to the current time, and leaves the omitted fields, the id, the
\* owner, created_at and every other task as they were; an update of a task the
\* caller does not have returns None and changes nothing.
C23_UpdateFrame ==
    layer = "service" =>
      \A u \in Users, id \in TaskIds, b \in UpdateBodies :
        \E r \in {update_task(tasks, now, u, id, b.title, b.description, b.completed)} :
          IF \E t \in tasks : t.id = id /\ t.user_id = u
          THEN \E t \in tasks :
                 /\ t.id = id /\ t.user_id = u
                 /\ r.result # None
                 /\ r.store \ {r.result[1]} = tasks \ {t}
                 /\ r.result[1] \in r.store
                 /\ r.result[1].id = t.id
                 /\ r.result[1].user_id = t.user_id
                 /\ r.result[1].created_at = t.created_at
                 /\ r.result[1].updated_at = now
                 /\ r.result[1].title = (IF b.title = None THEN t.title ELSE b.title[1])
                 /\ r.result[1].description =
                      (IF b.description = None THEN t.description ELSE b.description)
                 /\ r.result[1].completed =
                      (IF b.completed = None THEN t.completed ELSE b.completed[1])
          ELSE r.result = None /\ r.store = tasks

\* an update has just changed a task made at an earlier time
C23_Witness ==
    /\ layer = "service"
    /\ last.op = "update_task" /\ last.ok
    /\ \E t \in tasks : t.updated_at > t.created_at /\ t.description # None
    /\ Cardinality(tasks) = 2

\* C30: no call of the web service changes the owner, the id or created_at of a
\* stored task: a task stored before and after a step has the same owner and
\* created_at, so it is in the same user's list and in no other.
C30_OwnershipImmutable ==
    [][ layer = "service" =>
          /\ \A t \in tasks : \A t2 \in tasks' :
               t.id = t2.id => (t.user_id = t2.user_id /\ t.created_at = t2.created_at)
          /\ \A u \in Users :
               {t.id : t \in get_all_tasks(tasks', u)} \cap {t.id : t \in tasks}
                 \subseteq {t.id : t \in get_all_tasks(tasks, u)} ]_vars

\* a task of one user has been changed after the time it was made, while the
\* other user also has a task
C30_Witness ==
    /\ layer = "service"
    /\ last.op \in {"update_task", "toggle_task_completed"} /\ last.ok
    /\ \E t \in tasks : \E o \in tasks :
         t.user_id # o.user_id /\ t.updated_at > t.created_at

-----------------------------------------------------------------------------
(* backend/src/main.py: rate limiting *)

\* default_limits=["100/minute"]
DEFAULT_LIMIT == 100

\* app.add_middleware(...): CORSMiddleware is the only middleware installed
Middleware == {"CORSMiddleware"}

\* routes under a @limiter.limit decorator, and routes under @limiter.exempt
Limited == {}
Exempt == {"health"}

\* the limits slowapi checks before a route runs: the route's own when it is
\* decorated with @limiter.limit, the limiter's default limits when
\* SlowAPIMiddleware is installed and the route is not exempt, none otherwise
enforced_limits(endpoint) ==
    IF endpoint \in Limited THEN {DEFAULT_LIMIT}
    ELSE IF "SlowAPIMiddleware" \in Middleware /\ endpoint \notin Exempt THEN {DEFAULT_LIMIT}
    ELSE {}

\* one request of a user who has had count requests served in this minute:
\* RateLimitExceeded (429) when a checked limit is used up, else the route runs
handle_request(endpoint, count) ==
    IF \E limit \in enforced_limits(endpoint) : count >= limit
    THEN [status |-> 429, count |-> count]
    ELSE [status |-> 200,
          count |-> IF endpoint \in Exempt THEN count ELSE count + 1]

Endpoints == {"tasks", "auth", "health"}

LimitRequest ==
    /\ layer = "limit"
    /\ \E u \in Users, endpoint \in Endpoints :
         \E r \in {handle_request(endpoint, served[u])} :
           /\ r.count <= MaxRequests
           /\ served' = [served EXCEPT ![u] = r.count]
           /\ last' = [op |-> "request", kind |-> endpoint, ok |-> r.status = 200,
                       user |-> u, status |-> r.status, before |-> served[u]]
    /\ UNCHANGED <<layer, now, tasks, nextId, writes, cliTasks, held, hist, users, calls,
                   conversations, messages, sessions>>

\* the minute ends: the window of every user starts again
LimitMinutePasses ==
    /\ layer = "limit"
    /\ served # NoneServed
    /\ served' = NoneServed
    /\ UNCHANGED <<layer, now, tasks, nextId, last, writes, cliTasks, held, hist, users,
                   calls, conversations, messages, sessions>>

InitLimit ==
    /\ layer = "limit"
    /\ now = 0
    /\ tasks = {}
    /\ nextId = 1
    /\ last = NoLast
    /\ writes = 0
    /\ cliTasks = {}
    /\ held = None
    /\ hist = <<>>
    /\ users = {}
    /\ calls = NoCalls
    /\ served = NoneServed
    /\ conversations = {}
    /\ messages = {}
    /\ sessions = NoSessions

NextLimit ==
    \/ LimitRequest
    \/ LimitMinutePasses

SpecLimit == InitLimit /\ [][NextLimit]_vars

\* C25: within one minute at most 100 requests of a user to the task and auth
\* endpoints are served and further ones are refused as rate-limit exceeded;
\* /health is never refused.
C25_HundredPerMinutePerUser ==
    layer = "limit" =>
      /\ \A u \in Users : served[u] <= DEFAULT_LIMIT
      /\ (last.op = "request" /\ last.kind # "health" /\ last.before >= DEFAULT_LIMIT) =>
           last.status = 429
      /\ (last.op = "request" /\ last.kind = "health") => last.status = 200

\* C27: a token issued at time t has expiry t + 7 days; whatever has happened
\* since, it decodes at every time before its expiry and to None at every time
\* after it, and a token refused for expiry is refused at every later time.
C27_TokenLivesSevenDays ==
    /\ [](layer = "auth" =>
            \A t \in 0..now, uid \in IssuedUids, email \in Emails :
              \E token \in {create_access_token(uid, email, t)} :
                /\ token.exp = t + JWT_EXPIRATION_DAYS
                /\ now < token.exp =>
                     /\ decode_access_token(token, now) # None
                     /\ get_user_id_from_token(token, now) = Some(uid)
                /\ now > token.exp =>
                     /\ decode_access_token(token, now) = None
                     /\ get_user_id_from_token(token, now) = None)
    /\ [][ (layer = "auth" /\ held # None /\ decode_access_token(held[1].token, now) = None)
             => (held' # held \/ decode_access_token(held[1].token, now') = None) ]_vars

\* the held token has been presented after its expiry and refused
C27_Witness ==
    /\ layer = "auth"
    /\ held # None
    /\ now > held[1].issued_at + JWT_EXPIRATION_DAYS
    /\ last.op = "get_user_id_from_token" /\ last.kind = "issued"
    /\ last.at = now /\ ~last.ok

\* user ids in the URL: those with tasks, and one nobody has
UrlUsers == Users \cup {999}

-----------------------------------------------------------------------------
(* backend/alembic/versions: the tables and their foreign keys *)

Tables == {"user", "task", "conversation", "message"}

\* the foreign keys with no ondelete rule on any of them
ForeignKeys_no_ondelete ==
    << [table |-> "task", column |-> "user_id", ref |-> "user", ondelete |-> "NO ACTION"],
       [table |-> "conversation", column |-> "user_id", ref |-> "user",
        ondelete |-> "NO ACTION"],
       [table |-> "message", column |-> "conversation_id", ref |-> "conversation",
        ondelete |-> "NO ACTION"],
       [table |-> "message", column |-> "user_id", ref |-> "user", ondelete |-> "NO ACTION"] >>

\* sa.ForeignKeyConstraint([column], [ref.id], ondelete=...) of each table
ForeignKeys ==
    << [table |-> "task", column |-> "user_id", ref |-> "user", ondelete |-> "CASCADE"],
       [table |-> "conversation", column |-> "user_id", ref |-> "user",
        ondelete |-> "CASCADE"],
       [table |-> "message", column |-> "conversation_id", ref |-> "conversation",
        ondelete |-> "CASCADE"],
       [table |-> "message", column |-> "user_id", ref |-> "user", ondelete |-> "CASCADE"] >>

\* a row, by its key columns (0: the table has no such column)
Row(id, user_id, conversation_id) ==
    [id |-> id, user_id |-> user_id, conversation_id |-> conversation_id]

\* the rows a foreign key of another table ties to the rows ids of table
Children(db, fk, ids) == {r.id : r \in {x \in db[fk.table] : x[fk.column] \in ids}}

\* some row of another table refers to one of the rows ids of table through a
\* foreign key that does not cascade
Restricted(db, table, ids) ==
    \E k \in 1..Len(ForeignKeys) :
      /\ ForeignKeys[k].ref = table
      /\ ForeignKeys[k].ondelete # "CASCADE"
      /\ Children(db, ForeignKeys[k], ids) # {}

\* DELETE FROM table WHERE id IN ids, with the deletes ON DELETE CASCADE brings
\* about in the tables that refer to it (k: the foreign keys still to follow)
RECURSIVE delete_cascade(_, _, _, _)
delete_cascade(db, table, ids, k) ==
    IF k > Len(ForeignKeys)
    THEN [db EXCEPT ![table] = {r \in @ : r.id \notin ids}]
    ELSE IF ForeignKeys[k].ref = table /\ ForeignKeys[k].ondelete = "CASCADE"
    THEN delete_cascade(delete_cascade(db, ForeignKeys[k].table,
                                       Children(db, ForeignKeys[k], ids), 1),
                        table, ids, k + 1)
    ELSE delete_cascade(db, table, ids, k + 1)

\* DELETE: refused as a whole where a foreign key without cascade still refers
\* to a row it would remove
delete_from(db, table, id) ==
    IF \A r \in db[table] : r.id # id THEN [db |-> db, ok |-> FALSE]
    ELSE IF \E t \in Tables :
              Restricted(db, t, {r.id : r \in db[t]} \ {r.id : r \in delete_cascade(db, table, {id}, 1)[t]})
    THEN [db |-> db, ok |-> FALSE]
    ELSE [db |-> delete_cascade(db, table, {id}, 1), ok |-> TRUE]

\* INSERT: refused (IntegrityError) on a used primary key or a foreign key that
\* names no row
insert_into(db, table, row) ==
    IF \E r \in db[table] : r.id = row.id THEN [db |-> db, ok |-> FALSE]
    ELSE IF \E k \in 1..Len(ForeignKeys) :
              /\ ForeignKeys[k].table = table
              /\ \A parent \in db[ForeignKeys[k].ref] : parent.id # row[ForeignKeys[k].column]
    THEN [db |-> db, ok |-> FALSE]
    ELSE [db |-> [db EXCEPT ![table] = @ \cup {row}], ok |-> TRUE]

-----------------------------------------------------------------------------
(* Schema layer: inserts and deletes on the migrated tables *)

RowIds == {1, 2}

\* the rows a client of the database may try to insert into a table
RowsFor(table) ==
    IF table = "user" THEN {Row(id, 0, 0) : id \in RowIds}
    ELSE IF table = "message" THEN {Row(id, u, c) : id \in RowIds, u \in RowIds, c \in RowIds}
    ELSE {Row(id, u, 0) : id \in RowIds, u \in RowIds}

Db == [user |-> users, task |-> tasks, conversation |-> conversations,
       message |-> messages]

Stored(db) == Cardinality(db.user) + Cardinality(db.task) + Cardinality(db.conversation)
                + Cardinality(db.message)

SchemaInsert ==
    /\ layer = "schema"
    /\ \E table \in Tables : \E row \in RowsFor(table) :
         \E r \in {insert_into(Db, table, row)} :
           /\ users' = r.db.user
           /\ tasks' = r.db.task
           /\ conversations' = r.db.conversation
           /\ messages' = r.db.message
           /\ last' = [op |-> "insert", kind |-> table, ok |-> r.ok, id |-> row.id,
                       removed |-> 0]
    /\ UNCHANGED <<layer, now, nextId, writes, cliTasks, held, hist, calls, served, sessions>>

SchemaDelete ==
    /\ layer = "schema"
    /\ \E table \in Tables : \E id \in RowIds :
         \E r \in {delete_from(Db, table, id)} :
           /\ users' = r.db.user
           /\ tasks' = r.db.task
           /\ conversations' = r.db.conversation
           /\ messages' = r.db.message
           /\ last' = [op |-> "delete", kind |-> table, ok |-> r.ok, id |-> id,
                       removed |-> Stored(Db) - Stored(r.db)]
    /\ UNCHANGED <<layer, now, nextId, writes, cliTasks, held, hist, calls, served, sessions>>

InitSchema ==
    /\ layer = "schema"
    /\ now = 0
    /\ tasks = {}
    /\ nextId = 1
    /\ last = NoLast
    /\ writes = 0
    /\ cliTasks = {}
    /\ held = None
    /\ hist = <<>>
    /\ users = {}
    /\ calls = NoCalls
    /\ served = NoneServed
    /\ conversations = {}
    /\ messages = {}
    /\ sessions = NoSessions

NextSchema ==
    \/ SchemaInsert
    \/ SchemaDelete

SpecSchema == InitSchema /\ [][NextSchema]_vars

\* every row's references name stored rows
Referenced(db) ==
    \A k \in 1..Len(ForeignKeys) :
      \A r \in db[ForeignKeys[k].table] :
        \E parent \in db[ForeignKeys[k].ref] : parent.id = r[ForeignKeys[k].column]

\* C21: no task, conversation or message refers to a user that is not stored and
\* no message to a conversation that is not stored; deleting a user removes the
\* user and every task, conversation and message of that user, and deleting a
\* conversation removes its messages.
C21_DeleteCascades ==
    layer = "schema" =>
      /\ \A r \in tasks \cup conversations \cup messages : \E u \in users : u.id = r.user_id
      /\ \A m \in messages : \E c \in conversations : c.id = m.conversation_id
      /\ Referenced(Db)
      /\ \A u \in users :
           \E r \in {delete_from(Db, "user", u.id)} :
             /\ r.ok
             /\ r.db.user = users \ {u}
             /\ r.db.task = {t \in tasks : t.user_id # u.id}
             /\ r.db.conversation = {c \in conversations : c.user_id # u.id}
             /\ r.db.message =
                  {m \in messages :
                     /\ m.user_id # u.id
                     /\ \E c \in conversations : c.id = m.conversation_id /\ c.user_id # u.id}
      /\ \A c \in conversations :
           \E r \in {delete_from(Db, "conversation", c.id)} :
             /\ r.ok
             /\ r.db.message = {m \in messages : m.conversation_id # c.id}
             /\ r.db.user = users /\ r.db.task = tasks

\* a user has just been deleted together with three or more rows that referred
\* to it, and another user's rows are still stored
C21_Witness ==
    /\ layer = "schema"
    /\ last.op = "delete" /\ last.kind = "user" /\ last.ok
    /\ last.removed >= 4
    /\ users # {}

-----------------------------------------------------------------------------
(* Concurrent requests: each request runs the service function in a session *)
(* of its own; the function awaits at the select, at the commit and at the  *)
(* refresh, and other requests run in between.                              *)

\* the attribute assignments a service function makes on the loaded object
assign(op, task, clock, body) ==
    IF op = "toggle" THEN [task EXCEPT !.completed = ~@, !.updated_at = clock]
    ELSE IF op = "update"
    THEN [task EXCEPT
            !.title = IF body.title # None THEN body.title[1] ELSE @,
            !.description = IF body.description # None THEN body.description ELSE @,
            !.completed = IF body.completed # None THEN body.completed[1] ELSE @,
            !.updated_at = clock]
    ELSE task

\* the attributes whose assigned value differs from the loaded one
Changed(loaded, dirty) ==
    {c \in {"title", "description", "completed", "updated_at"} : dirty[c] # loaded[c]}

\* a flush that stores the object under its id whether or not its row is left
session_commit_merges(store, op, loaded, dirty) ==
    IF op = "delete"
    THEN [store |-> {t \in store : t.id # loaded.id}, ok |-> TRUE]
    ELSE [store |-> {t \in store : t.id # loaded.id} \cup {dirty}, ok |-> TRUE]

\* session.commit(): the flush sends DELETE ... WHERE id, or UPDATE ... SET the
\* changed attributes WHERE id; an UPDATE that matches no row raises
\* StaleDataError, a DELETE that matches none only warns
session_commit(store, op, loaded, dirty) ==
    IF op = "delete"
    THEN [store |-> {t \in store : t.id # loaded.id}, ok |-> TRUE]
    ELSE IF Changed(loaded, dirty) = {} THEN [store |-> store, ok |-> TRUE]
    ELSE IF \A t \in store : t.id # loaded.id THEN [store |-> store, ok |-> FALSE]
    ELSE [store |->
            {IF t.id # loaded.id THEN t
             ELSE [t EXCEPT
                     !.title = IF "title" \in Changed(loaded, dirty) THEN dirty.title ELSE @,
                     !.description = IF "description" \in Changed(loaded, dirty)
                                     THEN dirty.description ELSE @,
                     !.completed = IF "completed" \in Changed(loaded, dirty)
                                   THEN dirty.completed ELSE @,
                     !.updated_at = IF "updated_at" \in Changed(loaded, dirty)
                                    THEN dirty.updated_at ELSE @] : t \in store},
          ok |-> TRUE]

\* session.refresh(task): selects the row by primary key, raises when it is gone
session_refresh(store, loaded) ==
    LET rows == {t \in store : t.id = loaded.id}
    IN  IF rows = {} THEN None ELSE Some(CHOOSE t \in rows : TRUE)

RaceOps == {"toggle", "update", "delete"}

RaceBodies(op) == IF op = "update" THEN UpdateBodies ELSE {[title |-> None,
                                                            description |-> None,
                                                            completed |-> None]}

RaceTick ==
    /\ layer = "race"
    /\ now < MaxTime
    /\ now' = now + 1
    /\ UNCHANGED <<layer, tasks, nextId, last, writes, cliTasks, held, hist, users, calls,
                   served, conversations, messages, sessions>>

\* a request arrives: get_task selects the row; the function returns on None,
\* and otherwise assigns and reaches its commit
RaceLoad(p) ==
    /\ layer = "race"
    /\ sessions[p].pc \in {"idle", "done"}
    /\ writes < MaxWrites
    /\ writes' = writes + 1
    /\ \E op \in RaceOps, u \in Users, id \in TaskIds : \E body \in RaceBodies(op) :
         \E found \in {get_task(tasks, u, id)} :
           sessions' = [sessions EXCEPT ![p] =
             IF found = None
             THEN [pc |-> "done", op |-> op, user_id |-> u, task_id |-> id,
                   row |-> <<>>, dirty |-> <<>>, outcome |-> "not_found"]
             ELSE [pc |-> "loaded", op |-> op, user_id |-> u, task_id |-> id,
                   row |-> found[1], dirty |-> assign(op, found[1], now, body),
                   outcome |-> "none"]]
    /\ UNCHANGED <<layer, now, tasks, nextId, last, cliTasks, held, hist, users, calls,
                   served, conversations, messages>>

\* the commit of a request that loaded its row
RaceCommit(p) ==
    /\ layer = "race"
    /\ sessions[p].pc = "loaded"
    /\ \E r \in {session_commit(tasks, sessions[p].op, sessions[p].row, sessions[p].dirty)} :
         /\ tasks' = r.store
         /\ sessions' = [sessions EXCEPT ![p] =
              IF ~r.ok THEN [@ EXCEPT !.pc = "done", !.outcome = "error"]
              ELSE IF sessions[p].op = "delete" THEN [@ EXCEPT !.pc = "done", !.outcome = "ok"]
              ELSE [@ EXCEPT !.pc = "committed"]]
    /\ UNCHANGED <<layer, now, nextId, last, writes, cliTasks, held, hist, users, calls,
                   served, conversations, messages>>

\* the refresh after the commit of an update or a toggle, and the return
RaceRefresh(p) ==
    /\ layer = "race"
    /\ sessions[p].pc = "committed"
    /\ \E r \in {session_refresh(tasks, sessions[p].row)} :
         sessions' = [sessions EXCEPT ![p] =
           IF r = None THEN [@ EXCEPT !.pc = "done", !.outcome = "error"]
           ELSE [@ EXCEPT !.pc = "done", !.outcome = "ok", !.dirty = r[1]]]
    /\ UNCHANGED <<layer, now, tasks, nextId, last, writes, cliTasks, held, hist, users,
                   calls, served, conversations, messages>>

\* the task both requests are about, as create_task stored it
RaceTask == [id |-> 1, user_id |-> 1, title |-> Title(1), description |-> None,
             completed |-> FALSE, created_at |-> 0, updated_at |-> 0]

InitRace ==
    /\ layer = "race"
    /\ now = 0
    /\ tasks = {RaceTask}
    /\ nextId = 2
    /\ last = NoLast
    /\ writes = 0
    /\ cliTasks = {}
    /\ held = None
    /\ hist = <<>>
    /\ users = {}
    /\ calls = NoCalls
    /\ served = NoneServed
    /\ conversations = {}
    /\ messages = {}
    /\ sessions = NoSessions

NextRace ==
    \/ RaceTick
    \/ \E p \in Procs : RaceLoad(p)
    \/ \E p \in Procs : RaceCommit(p)
    \/ \E p \in Procs : RaceRefresh(p)

SpecRace == InitRace /\ [][NextRace]_vars

\* both requests are toggles by the owner that ended well, and no other request ran
BothToggled ==
    /\ layer = "race"
    /\ writes = 2
    /\ \A p \in Procs :
         /\ sessions[p].pc = "done"
         /\ sessions[p].op = "toggle"
         /\ sessions[p].task_id = RaceTask.id
         /\ sessions[p].outcome = "ok"

\* C28: after two toggle requests of the owner for the same task, each in its own
\* session, the completed flag has the value it had before the two requests.
C28_NoToggleLost ==
    BothToggled => \A t \in tasks : t.id = RaceTask.id => t.completed = RaceTask.completed

\* C29: a deleted task id stays absent, and an update or toggle request that
\* loaded the task before the delete and commits or refreshes after it changes no
\* row and ends as an error (one that found no row ended as not found).
C29_DeletedNeverReappears ==
    /\ [](layer = "race" =>
            \A p \in Procs :
              (sessions[p].pc = "done" /\ sessions[p].row = <<>>)
                 => sessions[p].outcome = "not_found")
    /\ [][layer = "race" =>
            \A id \in TaskIds :
              Gone(id) =>
                /\ Gone(id)'
                /\ \A p \in Procs :
                     (/\ sessions[p].pc \in {"loaded", "committed"}
                      /\ sessions[p].op \in {"toggle", "update"}
                      /\ sessions[p].task_id = id
                      /\ sessions'[p] # sessions[p])
                       => /\ tasks' = tasks
                          /\ sessions'[p].pc = "done" => sessions'[p].outcome = "error"]_vars

\* an update or toggle that loaded the task ended in an error after the task was
\* deleted by the other request
C29_Witness ==
    /\ layer = "race"
    /\ \E p, q \in Procs :
         /\ sessions[p].pc = "done" /\ sessions[p].op \in {"toggle", "update"}
         /\ sessions[p].row # <<>> /\ sessions[p].outcome = "error"
         /\ sessions[q].pc = "done" /\ sessions[q].op = "delete" /\ sessions[q].outcome = "ok"
         /\ Gone(sessions[p].task_id)

====
